---- MODULE Spec2Model ----
(***************************************************************************)
(* Quiz-Mantra backend: the quiz attempt and evaluation engine.            *)
(*                                                                         *)
(* The model follows the Express handlers of quizController.js             *)
(* (startQuizAttempt, submitQuiz, generateAIFeedback), of the submission   *)
(* controller (evaluateSubmission, requestRevaluation, handleRevaluation)  *)
(* and the mongoose models Submission, Quiz and User.  Every `await` of a  *)
(* student-side handler is a point where another request may run, so those *)
(* handlers are split into one action per await; a document loaded by a    *)
(* handler is a private copy until the handler saves it.                   *)
(***************************************************************************)
EXTENDS Integers, Sequences, FiniteSets, TLC

(***************************************************************************)
(* Bounds of the model.                                                    *)
(***************************************************************************)
MaxSubs == 2          \* Submissions ever created
MaxPoints == 3        \* the most points a manual grade gives
MaxSaves == 3         \* saves of a competition after which no entry request starts
MaxEntries == 3       \* entries of the leaderboards that are ranked on their own
MaxHistory == 8       \* attempts of the history whose averages are followed

Students == {"s1", "s2"}
Teacher == "t1"
Admin == "admin1"
QuizIds == {"quizA", "quizB"}
Procs == {"p1", "p2"}

NULL == "null"          \* an unset id or string field
NoDate == 0 - 1         \* an unset Date field

(***************************************************************************)
(* Strings.  A string is a sequence of characters, so that toLowerCase and *)
(* trim are computed and not assumed.  NotAString stands for a value of    *)
(* the Mixed answer field that is no string (an array or an object).       *)
(***************************************************************************)
NotAString == <<"[object]">>

IsString(v) == v # NotAString

Lower(c) == IF c = "A" THEN "a" ELSE IF c = "B" THEN "b" ELSE c

toLowerCase(s) == [i \in DOMAIN s |-> Lower(s[i])]

RECURSIVE TrimStart(_)
TrimStart(s) == IF s # <<>> /\ Head(s) = " " THEN TrimStart(Tail(s)) ELSE s

RECURSIVE TrimEnd(_)
TrimEnd(s) ==
  IF s # <<>> /\ s[Len(s)] = " " THEN TrimEnd(SubSeq(s, 1, Len(s) - 1)) ELSE s

trim(s) == TrimEnd(TrimStart(s))

\* Answer texts a request may carry.
Texts == { <<"a">>, <<"A">>, <<"a", " ">>, <<"b">> }

(***************************************************************************)
(* Numbers.                                                                *)
(***************************************************************************)
\* Math.round of the non-negative quotient 100 * n / d (d > 0): the nearest
\* integer, a half rounded up.
RoundPercent(n, d) == (200 * n + d) \div (2 * d)

\* JavaScript `x || 1` on a number: 0 is falsy.
OrOne(x) == IF x = 0 THEN 1 ELSE x

(***************************************************************************)
(* JavaScript Numbers that need not be integers: the rolling averages.  A  *)
(* non-negative IEEE 754 double is <<whole, bits>>: its integer part and   *)
(* the binary digits behind the point, the last one a 1.  Every operation  *)
(* rounds its exact result to 53 significant binary digits, a tie going to *)
(* the even neighbour, as the engine does.                                 *)
(***************************************************************************)
Significand == 53

Double(n) == <<n, <<>>>>      \* the double that is the integer n

\* The number of binary digits of the natural number n.
RECURSIVE BitLength(_)
BitLength(n) == IF n = 0 THEN 0 ELSE 1 + BitLength(n \div 2)

\* The places of the digits that are 1.
Ones(bits) == {i \in DOMAIN bits : bits[i] = 1}

\* The digits without the zeros at their end.
TrimZeros(bits) ==
  IF Ones(bits) = {} THEN <<>>
  ELSE SubSeq(bits, 1, CHOOSE i \in Ones(bits) : \A j \in Ones(bits) : j <= i)

\* The zeros in front of the first 1 of the digits.
LeadingZeros(bits) ==
  IF Ones(bits) = {} THEN Len(bits)
  ELSE (CHOOSE i \in Ones(bits) : \A j \in Ones(bits) : i <= j) - 1

\* The digits plus one in their last place: the carry, then the digits.
Increment(bits) ==
  LET zeros == DOMAIN bits \ Ones(bits)
  IN IF zeros = {} THEN <<1>> \o [i \in DOMAIN bits |-> 0]
     ELSE LET last == CHOOSE i \in zeros : \A j \in zeros : j <= i
          IN <<0>> \o [i \in DOMAIN bits |->
                         IF i < last THEN bits[i] ELSE IF i = last THEN 1 ELSE 0]

\* The double nearest to whole + 0.bits (+ something below the last digit,
\* when sticky).
DoubleRound(whole, bits, sticky) ==
  LET keep == IF whole = 0 THEN LeadingZeros(bits) + Significand
              ELSE Significand - BitLength(whole)
  IN IF Len(bits) <= keep
     THEN <<whole, TrimZeros(bits)>>
     ELSE LET kept == SubSeq(bits, 1, keep)
              guard == bits[keep + 1]
              rest == sticky \/ \E i \in (keep + 2)..Len(bits) : bits[i] = 1
              odd == IF keep = 0 THEN whole % 2 = 1 ELSE kept[keep] = 1
          IN IF guard = 1 /\ (rest \/ odd)
             THEN LET up == Increment(kept)
                  IN <<whole + Head(up), TrimZeros(Tail(up))>>
             ELSE <<whole, TrimZeros(kept)>>

\* The digits are worked on twelve at a time, as numbers below 4096.
LimbDigits == 12
LimbSize == 4096

\* The number of limbs the digits fill.
Limbs(bits) == (Len(bits) + LimbDigits - 1) \div LimbDigits

\* The n-th limb of the digits, zeros behind their end.
RECURSIVE LimbFrom(_, _, _)
LimbFrom(bits, place, left) ==
  IF left = 0 THEN 0
  ELSE (IF place <= Len(bits) THEN bits[place] ELSE 0)
         + 2 * LimbFrom(bits, place - 1, left - 1)

Limb(bits, n) == LimbFrom(bits, n * LimbDigits, LimbDigits)

\* The twelve digits of a limb.
DigitsOf(limb) ==
  [i \in 1..LimbDigits |-> (limb \div 2 ^ (LimbDigits - i)) % 2]

\* The first n limbs of 0.bits times the natural number k, plus carry in
\* the last place, exactly: the integer part, then the digits.
RECURSIVE TimesBits(_, _, _, _)
TimesBits(bits, k, n, carry) ==
  IF n = 0 THEN <<carry>>
  ELSE TimesBits(bits, k, n - 1, (Limb(bits, n) * k + carry) \div LimbSize)
         \o DigitsOf((Limb(bits, n) * k + carry) % LimbSize)

\* The digits of (r + 0.bits) / c behind the point, for r < c, from limb n
\* of bits on, as far as the rounding needs them, and then a 1 if more would
\* follow, a 0 if not.  sig is the number of significant digits before these.
RECURSIVE OverBits(_, _, _, _, _)
OverBits(r, bits, c, n, sig) ==
  IF sig >= Significand + 2
  THEN IF r # 0 \/ \E i \in Ones(bits) : i > (n - 1) * LimbDigits
       THEN <<1>> ELSE <<0>>
  ELSE IF r = 0 /\ n > Limbs(bits)
  THEN <<0>>
  ELSE DigitsOf((r * LimbSize + Limb(bits, n)) \div c)
         \o OverBits((r * LimbSize + Limb(bits, n)) % c, bits, c, n + 1,
                     IF sig > 0 THEN sig + LimbDigits
                     ELSE BitLength((r * LimbSize + Limb(bits, n)) \div c))

\* x * k, x + n and x / c for a double x and natural numbers k, n, c (c > 0).
DoubleTimes(x, k) ==
  LET product == TimesBits(x[2], k, Limbs(x[2]), 0)
  IN DoubleRound(x[1] * k + Head(product), Tail(product), FALSE)

DoublePlus(x, n) == DoubleRound(x[1] + n, x[2], FALSE)

DoubleOver(x, c) ==
  LET quotient == OverBits(x[1] % c, x[2], c, 1, BitLength(x[1] \div c))
  IN DoubleRound(x[1] \div c, SubSeq(quotient, 1, Len(quotient) - 1),
                 quotient[Len(quotient)] = 1)

Min(S) == CHOOSE x \in S : \A y \in S : x <= y

(***************************************************************************)
(* Quiz model (models/Quiz.js).  A question is                             *)
(*   [id, type, options, correctAnswer, explanation, points]               *)
(* with options a sequence of [text, isCorrect]; a quiz is                 *)
(*   [status, isActive, startDate, endDate, assignedTo, createdBy,         *)
(*    timeLimit, allowRetake, autoGrade, questions,                        *)
(*    totalAttempts, averageScore].                                        *)
(***************************************************************************)
QuestionTypes == {"multiple-choice", "true-false", "short-answer", "essay"}

\* Array.prototype.find, as the index of the first element that satisfies
\* the test, 0 when there is none.
FindQuestion(questions, questionId) ==
  LET hits == {i \in DOMAIN questions : questions[i].id = questionId}
  IN IF hits = {} THEN 0 ELSE Min(hits)

FindCorrectOption(options) ==
  LET hits == {i \in DOMAIN options : options[i].isCorrect}
  IN IF hits = {} THEN 0 ELSE Min(hits)

\* quizSchema.methods.isAvailable
isAvailable(quiz, now) ==
  IF quiz.status # "published" THEN FALSE
  ELSE IF quiz.startDate # NoDate /\ now < quiz.startDate THEN FALSE
  ELSE IF quiz.endDate # NoDate /\ now > quiz.endDate THEN FALSE
  ELSE TRUE

\* The access test without the `assignedTo.length === 0` condition.
hasAccess_AnyPublished(quiz, user) ==
  \/ user \in quiz.assignedTo
  \/ quiz.status = "published"

\* startQuizAttempt: the access test.
hasAccess(quiz, user) ==
  \/ user \in quiz.assignedTo
  \/ (quiz.assignedTo = {} /\ quiz.status = "published")

(***************************************************************************)
(* Grading (submitQuiz, the answers.map callback).                         *)
(***************************************************************************)
\* The string methods of the true-false and short-answer branches throw a
\* TypeError when the answer is no string.
GradingThrows(questions, answers) ==
  \E i \in DOMAIN answers :
    LET q == FindQuestion(questions, answers[i].questionId)
    IN /\ q # 0
       /\ questions[q].type \in {"true-false", "short-answer"}
       /\ ~IsString(answers[i].answer)

AnswerIsCorrect(question, answer) ==
  IF question.type = "multiple-choice"
  THEN LET correctOption == FindCorrectOption(question.options)
       IN correctOption # 0 /\ question.options[correctOption].text = answer
  ELSE IF question.type = "true-false"
  THEN toLowerCase(question.correctAnswer) = toLowerCase(answer)
  ELSE IF question.type = "short-answer"
  THEN trim(toLowerCase(question.correctAnswer)) = trim(toLowerCase(answer))
  ELSE FALSE

AwardedPoints(question) == OrOne(question.points)

ProcessAnswer(questions, answer) ==
  LET q == FindQuestion(questions, answer.questionId)
      isCorrect == q # 0 /\ AnswerIsCorrect(questions[q], answer.answer)
  IN [questionId |-> answer.questionId,
      answer |-> answer.answer,
      isCorrect |-> isCorrect,
      points |-> IF isCorrect THEN AwardedPoints(questions[q]) ELSE 0]

ProcessAnswers(questions, answers) ==
  [i \in DOMAIN answers |-> ProcessAnswer(questions, answers[i])]

(***************************************************************************)
(* Submission model (models/Submission.js).                                *)
(***************************************************************************)
\* calculateScore: the forEach over this.answers, as a fold.
RECURSIVE ScoreFold(_, _, _, _)
ScoreFold(answers, quizQuestions, totalPoints, earnedPoints) ==
  IF answers = <<>> THEN <<totalPoints, earnedPoints>>
  ELSE LET answer == Head(answers)
           q == FindQuestion(quizQuestions, answer.questionId)
       IN IF q = 0
          THEN ScoreFold(Tail(answers), quizQuestions, totalPoints, earnedPoints)
          ELSE ScoreFold(Tail(answers), quizQuestions,
                         totalPoints + OrOne(quizQuestions[q].points),
                         IF answer.isCorrect
                         THEN earnedPoints
                              + (IF answer.points # 0 THEN answer.points
                                 ELSE OrOne(quizQuestions[q].points))
                         ELSE earnedPoints)

TotalPossible(answers, quizQuestions) == ScoreFold(answers, quizQuestions, 0, 0)[1]

calculateScore(sub, quizQuestions) ==
  LET folded == ScoreFold(sub.answers, quizQuestions, 0, 0)
      totalPoints == TotalPossible(sub.answers, quizQuestions)
      earnedPoints == folded[2]
  IN [sub EXCEPT !.total = earnedPoints,
                 !.percentage = IF totalPoints > 0
                                THEN RoundPercent(earnedPoints, totalPoints)
                                ELSE 0]

\* The pre('save') hook's threshold table.
GradeOf(percentage) ==
  IF percentage >= 95 THEN "A+"
  ELSE IF percentage >= 90 THEN "A"
  ELSE IF percentage >= 85 THEN "B+"
  ELSE IF percentage >= 80 THEN "B"
  ELSE IF percentage >= 75 THEN "C+"
  ELSE IF percentage >= 70 THEN "C"
  ELSE IF percentage >= 60 THEN "D"
  ELSE "F"

\* A save without the hook: the grade stays as it was.
preSave_NoHook(sub) == sub

preSave(sub) ==
  IF sub.percentage >= 0 THEN [sub EXCEPT !.grade = GradeOf(sub.percentage)] ELSE sub

\* finishSubmission: Math.floor of the millisecond difference over 1000.
finishSubmission(sub, now) ==
  [sub EXCEPT !.status = "submitted",
              !.endTime = now,
              !.totalTime = (now - sub.startTime) \div 1000]

\* The document Submission.create stores: the given fields and the schema's
\* defaults, through the pre('save') hook.
NewSubmission(quizId, student, now, timeLimit) ==
  preSave([quiz |-> quizId, student |-> student, answers |-> <<>>,
           total |-> 0, percentage |-> 0, grade |-> "F",
           startTime |-> now, endTime |-> NoDate, totalTime |-> 0,
           timeLimit |-> timeLimit,
           status |-> "in-progress",
           autoGraded |-> FALSE, evaluatedBy |-> NULL, evaluatedAt |-> NoDate,
           feedback |-> NULL, aiInsights |-> FALSE,
           revRequested |-> FALSE, requestedAt |-> NoDate, revReason |-> NULL,
           revStatus |-> "pending",
           handledBy |-> NULL, handledAt |-> NoDate, revResponse |-> NULL,
           version |-> 0])

(***************************************************************************)
(* Rolling averages (Quiz.updateStatistics, User.updateStats).             *)
(***************************************************************************)
\* (average * (count - 1) + score) / count, count already incremented.
updateRollingAverage(average, count, score) ==
  DoubleOver(DoublePlus(DoubleTimes(average, count - 1), score), count)

updateStatistics(quiz, score) ==
  LET n == quiz.totalAttempts + 1
  IN [quiz EXCEPT !.totalAttempts = n,
                  !.averageScore = updateRollingAverage(quiz.averageScore, n, score)]

updateStats(user, score) ==
  LET n == user.totalQuizzes + 1
  IN [user EXCEPT !.totalQuizzes = n,
                  !.averageScore = updateRollingAverage(user.averageScore, n, score)]

(***************************************************************************)
(* Competition model (the Competition schema and its methods).  A          *)
(* competition is                                                          *)
(*   [quiz, status, competitionStart, competitionEnd, participants,        *)
(*    leaderboard, version]                                                *)
(* participants is a sequence of [user, status]; leaderboard a sequence of *)
(*   [user, submission, score, percentage, completionTime, rank,           *)
(*    completedAt]                                                         *)
(* and version the document's __v.                                         *)
(***************************************************************************)
CompetitionStatuses ==
  {"draft", "registration-open", "registration-closed", "active", "completed", "cancelled"}

\* A participant as addParticipant pushes it: status defaults to registered.
Participant(user) == [user |-> user, status |-> "registered"]

\* An isActive that looks at the status alone.
isActive_AnyTime(competition, now) ==
  competition.status = "active"

\* competition.isActive(), at the time now.
isActive(competition, now) ==
  /\ competition.status = "active"
  /\ now >= competition.competitionStart
  /\ now <= competition.competitionEnd

\* A comparator that puts the slower of two equal scores first.
CompareEntries_SlowerFirst(a, b) ==
  IF b.score # a.score THEN b.score - a.score
  ELSE b.completionTime - a.completionTime

\* The comparator updateLeaderboard sorts with: negative when a goes first.
CompareEntries(a, b) ==
  IF b.score # a.score THEN b.score - a.score
  ELSE a.completionTime - b.completionTime

\* A sort that puts an entry before those it ties with.
RECURSIVE InsertSorted_Unstable(_, _)
InsertSorted_Unstable(sorted, e) ==
  IF sorted = <<>> THEN <<e>>
  ELSE LET last == sorted[Len(sorted)]
       IN IF CompareEntries(last, e) < 0
          THEN Append(sorted, e)
          ELSE Append(InsertSorted_Unstable(SubSeq(sorted, 1, Len(sorted) - 1), e), last)

\* Array.prototype.sort is stable: an entry goes behind every entry that
\* does not compare as later than it.
RECURSIVE InsertSorted(_, _)
InsertSorted(sorted, e) ==
  IF sorted = <<>> THEN <<e>>
  ELSE LET last == sorted[Len(sorted)]
       IN IF CompareEntries(last, e) <= 0
          THEN Append(sorted, e)
          ELSE Append(InsertSorted(SubSeq(sorted, 1, Len(sorted) - 1), e), last)

RECURSIVE SortEntries(_)
SortEntries(entries) ==
  IF entries = <<>> THEN <<>>
  ELSE InsertSorted(SortEntries(SubSeq(entries, 1, Len(entries) - 1)),
                    entries[Len(entries)])

\* updateLeaderboard, up to its save: sort, then rank every entry by its place.
updateLeaderboard(competition) ==
  LET sorted == SortEntries(competition.leaderboard)
  IN [competition EXCEPT
        !.leaderboard = [i \in 1..Len(sorted) |-> [sorted[i] EXCEPT !.rank = i]]]

\* The index of the first element of seq whose user is the given one, 0 when
\* there is none (Array.prototype.find).
FindUser(seq, user) ==
  IF \E i \in DOMAIN seq : seq[i].user = user
  THEN CHOOSE i \in DOMAIN seq : /\ seq[i].user = user
                                 /\ \A j \in 1..(i - 1) : seq[j].user # user
  ELSE 0

\* The entry rule that also takes a submission of the same percentage.
EnterSubmission_OrEqual(competition, user, submissionId, submission) ==
  LET e == FindUser(competition.leaderboard, user)
      entry == [user |-> user,
                submission |-> submissionId,
                score |-> submission.total,
                percentage |-> submission.percentage,
                completionTime |-> submission.totalTime,
                rank |-> 0,
                completedAt |-> submission.endTime]
  IN IF e # 0
     THEN IF submission.percentage >= competition.leaderboard[e].percentage
          THEN [competition EXCEPT !.leaderboard[e] = [entry EXCEPT !.rank = competition.leaderboard[e].rank]]
          ELSE competition
     ELSE [competition EXCEPT !.leaderboard = Append(@, entry)]

\* The leaderboard part of submitCompetitionEntry: the user's entry takes the
\* submission when its percentage is better; a user without entry gets one.
\* A pushed entry has no rank (0) until updateLeaderboard gives it one.
EnterSubmission(competition, user, submissionId, submission) ==
  LET e == FindUser(competition.leaderboard, user)
  IN IF e # 0
     THEN IF submission.percentage > competition.leaderboard[e].percentage
          THEN [competition EXCEPT
                  !.leaderboard[e].score = submission.total,
                  !.leaderboard[e].percentage = submission.percentage,
                  !.leaderboard[e].completionTime = submission.totalTime,
                  !.leaderboard[e].submission = submissionId,
                  !.leaderboard[e].completedAt = submission.endTime]
          ELSE competition
     ELSE [competition EXCEPT
             !.leaderboard = Append(@, [user |-> user,
                                        submission |-> submissionId,
                                        score |-> submission.total,
                                        percentage |-> submission.percentage,
                                        completionTime |-> submission.totalTime,
                                        rank |-> 0,
                                        completedAt |-> submission.endTime])]

(***************************************************************************)
(* State.                                                                  *)
(*   clock    the server's time, in milliseconds                           *)
(*   quizzes  the Quiz collection, by id                                   *)
(*   users    the User collection (the stats of each student), by id       *)
(*   subs     the Submission collection: a sequence, a document's _id is   *)
(*            its index                                                    *)
(*   comps    the Competition collection, by id                            *)
(*   pc, loc  each request in flight: the await it is suspended at and its *)
(*            local variables (req.user, the documents it has loaded)      *)
(*   resp     the last response sent                                       *)
(***************************************************************************)
VARIABLES clock, quizzes, users, subs, comps, pc, loc, resp

vars == <<clock, quizzes, users, subs, comps, pc, loc, resp>>

Graders == {Teacher, "t2"}      \* t2 is a teacher who owns no quiz
ReqQuizIds == QuizIds \cup {"quizX"}     \* quizX is the id of no quiz
\* The submission ids a request may name: those in use and one that is not.
ReqSubIds == 1..(Len(subs) + 1)

Idle(p) == pc[p] = "idle"
AllIdle == \A p \in Procs : Idle(p)

NoLocals == [user |-> NULL]
NoResponse == [code |-> 0, msg |-> NULL, data |-> 0]

\* res.status(code).json({message, data}): data is a submission's id, 0 when
\* the response carries none.
Respond(code, msg, data) == resp' = [code |-> code, msg |-> msg, data |-> data]

\* A suspended request sends its response and ends.
Reply(p, code, msg, data) ==
  /\ Respond(code, msg, data)
  /\ pc' = [pc EXCEPT ![p] = "idle"]
  /\ loc' = [loc EXCEPT ![p] = NoLocals]

\* A handler throws: asyncHandler hands the error to the error middleware
\* (middleware/errorHandler), which answers with an error status and the
\* error; nothing the handler had not saved is stored.
ErrorStatuses == {400, 500}

Thrown(name) == \E code \in ErrorStatuses : Respond(code, name, 0)

Throw(p, name) ==
  /\ Thrown(name)
  /\ pc' = [pc EXCEPT ![p] = "idle"]
  /\ loc' = [loc EXCEPT ![p] = NoLocals]

Goto(p, label, locals) ==
  /\ pc' = [pc EXCEPT ![p] = label]
  /\ loc' = [loc EXCEPT ![p] = locals]
  /\ UNCHANGED resp

\* Submission.findOne({quiz, student, status in statuses}): the ids that match.
Matching(quizId, student, statuses) ==
  {i \in DOMAIN subs : /\ subs[i].quiz = quizId
                       /\ subs[i].student = student
                       /\ subs[i].status \in statuses}

\* Requests that have passed the checks of startQuizAttempt and not yet created.
Starting == {p \in Procs : pc[p] \in {"start_find", "start_retake", "start_create"}}

(***************************************************************************)
(* The clock.                                                              *)
(***************************************************************************)
\* Time passes: the clock (milliseconds) moves on to a later one of the
\* instants at which requests arrive.
Tick(instants) ==
  /\ \E t \in instants : t > clock /\ clock' = t
  /\ UNCHANGED <<quizzes, users, subs, comps, pc, loc, resp>>

(***************************************************************************)
(* startQuizAttempt (POST /api/quiz/:id/start), one action per await.      *)
(***************************************************************************)
startQuizAttempt_Load(p, user, quizId) ==
  /\ Idle(p)
  /\ UNCHANGED <<comps, clock, quizzes, users, subs>>
  /\ IF quizId \notin DOMAIN quizzes \/ ~quizzes[quizId].isActive
     THEN Reply(p, 404, "Quiz not found", 0)
     ELSE IF ~isAvailable(quizzes[quizId], clock)
     THEN Reply(p, 400, "Quiz is not available at this time", 0)
     ELSE IF ~hasAccess(quizzes[quizId], user)
     THEN Reply(p, 403, "You are not assigned to this quiz", 0)
     ELSE Goto(p, "start_find",
               [user |-> user, quizId |-> quizId, quiz |-> quizzes[quizId]])

\* The lookup that passes over an attempt whose time limit has run out.
startQuizAttempt_FindExisting_Stale(p) ==
  /\ pc[p] = "start_find"
  /\ UNCHANGED <<comps, clock, quizzes, users, subs>>
  /\ LET existing == { i \in Matching(loc[p].quizId, loc[p].user, {"in-progress"}) :
                         ~(/\ subs[i].timeLimit # 0
                           /\ (clock - subs[i].startTime) \div 1000 > subs[i].timeLimit) }
     IN IF existing # {}
        THEN \E existingSubmission \in existing :
               Reply(p, 400, "You already have an ongoing attempt for this quiz",
                     existingSubmission)
        ELSE IF ~loc[p].quiz.allowRetake
        THEN Goto(p, "start_retake", loc[p])
        ELSE Goto(p, "start_create", loc[p])

startQuizAttempt_FindExisting(p) ==
  /\ pc[p] = "start_find"
  /\ UNCHANGED <<comps, clock, quizzes, users, subs>>
  /\ LET existing == Matching(loc[p].quizId, loc[p].user, {"in-progress"})
     IN IF existing # {}
        THEN \E existingSubmission \in existing :
               Reply(p, 400, "You already have an ongoing attempt for this quiz",
                     existingSubmission)
        ELSE IF ~loc[p].quiz.allowRetake
        THEN Goto(p, "start_retake", loc[p])
        ELSE Goto(p, "start_create", loc[p])

startQuizAttempt_FindCompleted(p) ==
  /\ pc[p] = "start_retake"
  /\ UNCHANGED <<comps, clock, quizzes, users, subs>>
  /\ IF Matching(loc[p].quizId, loc[p].user, {"submitted", "evaluated"}) # {}
     THEN Reply(p, 400, "Retakes are not allowed for this quiz", 0)
     ELSE Goto(p, "start_create", loc[p])

\* The questions passed on with their options as they are stored.
sanitizedQuestions_WithOptions(questions) ==
  [i \in DOMAIN questions |->
     [id |-> questions[i].id,
      type |-> questions[i].type,
      options |-> questions[i].options,
      points |-> questions[i].points]]

\* The questions of sanitizedQuiz: of each question the _id, the type, the
\* points and, of a multiple-choice question, the text of every option (no
\* options, <<>>, for the other types).  The question text and the tags,
\* which the model does not carry, are passed on as well.
sanitizedQuestions(questions) ==
  [i \in DOMAIN questions |->
     [id |-> questions[i].id,
      type |-> questions[i].type,
      options |-> IF questions[i].type = "multiple-choice"
                  THEN [k \in DOMAIN questions[i].options |->
                          [text |-> questions[i].options[k].text]]
                  ELSE <<>>,
      points |-> questions[i].points]]

\* Submission.create and the response, which carries the sanitized quiz.
startQuizAttempt_Create(p) ==
  /\ pc[p] = "start_create"
  /\ subs' = Append(subs, NewSubmission(loc[p].quizId, loc[p].user, clock,
                                        loc[p].quiz.timeLimit * 60))
  /\ resp' = [code |-> 201, msg |-> "Quiz attempt started successfully",
              data |-> Len(subs) + 1,
              questions |-> sanitizedQuestions(loc[p].quiz.questions)]
  /\ pc' = [pc EXCEPT ![p] = "idle"]
  /\ loc' = [loc EXCEPT ![p] = NoLocals]
  /\ UNCHANGED <<comps, clock, quizzes, users>>

(***************************************************************************)
(* submitQuiz (POST /api/quiz/:id/submit), one action per await.  The quiz *)
(* is the one the request names (req.params.id); req.user is the document  *)
(* the request was authenticated with.                                     *)
(***************************************************************************)
submitQuiz_Load_AnyStatus(p, user, submissionId, quizId, answers) ==
  /\ Idle(p)
  /\ UNCHANGED <<comps, clock, quizzes, users, subs>>
  /\ IF /\ submissionId \in DOMAIN subs
        /\ subs[submissionId].student = user
     THEN Goto(p, "submit_quiz",
               [user |-> user, reqUser |-> users[user],
                submissionId |-> submissionId,
                submission |-> subs[submissionId],
                quizId |-> quizId, answers |-> answers])
     ELSE Reply(p, 404, "Active submission not found", 0)

submitQuiz_Load(p, user, submissionId, quizId, answers) ==
  /\ Idle(p)
  /\ UNCHANGED <<comps, clock, quizzes, users, subs>>
  /\ IF /\ submissionId \in DOMAIN subs
        /\ subs[submissionId].student = user
        /\ subs[submissionId].status = "in-progress"
     THEN Goto(p, "submit_quiz",
               [user |-> user, reqUser |-> users[user],
                submissionId |-> submissionId,
                submission |-> subs[submissionId],
                quizId |-> quizId, answers |-> answers])
     ELSE Reply(p, 404, "Active submission not found", 0)

TimeLimitExceeded_AtLimit(submission, currentTime) ==
  LET timeElapsed == (currentTime - submission.startTime) \div 1000
  IN submission.timeLimit # 0 /\ timeElapsed >= submission.timeLimit

\* The time-limit test: `timing.timeLimit && timeElapsed > timing.timeLimit`.
TimeLimitExceeded(submission, currentTime) ==
  LET timeElapsed == (currentTime - submission.startTime) \div 1000
  IN submission.timeLimit # 0 /\ timeElapsed > submission.timeLimit

\* The in-memory document after grading, scoring and finishing.
Submitted(submission, quiz, answers, now) ==
  LET graded == [submission EXCEPT !.answers = ProcessAnswers(quiz.questions, answers)]
      finished == finishSubmission(calculateScore(graded, quiz.questions), now)
  IN IF quiz.autoGrade
     THEN [finished EXCEPT !.status = "evaluated",
                           !.autoGraded = TRUE,
                           !.evaluatedAt = now]
     ELSE finished

\* submission.save(): the paths the handler assigned go to the stored
\* document, after the pre('save') hook.  The answers are assigned as a
\* whole array, so Mongoose saves only onto the version (__v) the handler
\* loaded and increments it.
saveSubmitted(stored, doc, autoGrade) ==
  LET d == preSave(doc)
      written == [stored EXCEPT !.answers = d.answers,
                                !.total = d.total,
                                !.percentage = d.percentage,
                                !.grade = d.grade,
                                !.status = d.status,
                                !.endTime = d.endTime,
                                !.totalTime = d.totalTime,
                                !.version = @ + 1]
  IN IF autoGrade
     THEN [written EXCEPT !.autoGraded = d.autoGraded, !.evaluatedAt = d.evaluatedAt]
     ELSE written

submitQuiz_Grade(p) ==
  /\ pc[p] = "submit_quiz"
  /\ UNCHANGED <<comps, clock, quizzes, users>>
  /\ LET l == loc[p] IN
     IF l.quizId \notin DOMAIN quizzes
     THEN UNCHANGED subs /\ Reply(p, 404, "Quiz not found", 0)
     ELSE IF TimeLimitExceeded(l.submission, clock)
     THEN UNCHANGED subs /\ Reply(p, 400, "Time limit exceeded", 0)
     ELSE IF GradingThrows(quizzes[l.quizId].questions, l.answers)
     THEN UNCHANGED subs /\ Throw(p, "TypeError")
     ELSE IF subs[l.submissionId].version # l.submission.version
     THEN UNCHANGED subs /\ Throw(p, "VersionError")
     ELSE LET quiz == quizzes[l.quizId]
              doc == Submitted(l.submission, quiz, l.answers, clock)
          IN /\ subs' = [subs EXCEPT ![l.submissionId] =
                           saveSubmitted(subs[l.submissionId], doc, quiz.autoGrade)]
             /\ Goto(p, "submit_qstats",
                     [l EXCEPT !.submission = preSave(doc)] @@ [quiz |-> quiz])

submitQuiz_QuizStats(p) ==
  /\ pc[p] = "submit_qstats"
  /\ LET l == loc[p]
         saved == updateStatistics(l.quiz, l.submission.percentage)
     IN quizzes' = [quizzes EXCEPT ![l.quizId].totalAttempts = saved.totalAttempts,
                                   ![l.quizId].averageScore = saved.averageScore]
  /\ Goto(p, "submit_ustats", loc[p])
  /\ UNCHANGED <<comps, clock, users, subs>>

submitQuiz_UserStats(p) ==
  /\ pc[p] = "submit_ustats"
  /\ LET l == loc[p]
         saved == updateStats(l.reqUser, l.submission.percentage)
     IN users' = [users EXCEPT ![l.user] = saved]
  /\ Reply(p, 200, "Quiz submitted successfully", loc[p].submissionId)
  /\ UNCHANGED <<comps, clock, quizzes, subs>>

(***************************************************************************)
(* The teacher-side handlers of the submission controller and              *)
(* generateAIFeedback.  Each loads a submission with its quiz, changes it  *)
(* and saves it; they are taken as one step each.                          *)
(***************************************************************************)
\* The forEach that applies manualGrades / newGrades: the first answer with
\* the grade's questionId gets the grade's points, isCorrect = points > 0.
RECURSIVE ApplyGrades(_, _)
ApplyGrades(answers, grades) ==
  IF grades = <<>> THEN answers
  ELSE LET grade == Head(grades)
           hits == {i \in DOMAIN answers : answers[i].questionId = grade.questionId}
           applied == IF hits = {} THEN answers
                      ELSE [answers EXCEPT ![Min(hits)].points = grade.points,
                                           ![Min(hits)].isCorrect = grade.points > 0]
       IN ApplyGrades(applied, Tail(grades))

Regrade(submission, quiz, grades) ==
  calculateScore([submission EXCEPT !.answers = ApplyGrades(submission.answers, grades)],
                 quiz.questions)

\* `quiz.createdBy.toString() !== req.user.id && req.user.role !== 'admin'`
\* refuses the caller.
Role(user) == IF user = Admin THEN "admin" ELSE IF user \in Students THEN "student" ELSE "teacher"

MayEvaluate(quiz, user) == ~(quiz.createdBy # user /\ Role(user) # "admin")

\* The handler without the try/catch around the AI call.
evaluateSubmission_AIFatal(user, submissionId, feedback, manualGrades, aiThrows) ==
  /\ UNCHANGED <<comps, clock, quizzes, users, pc, loc>>
  /\ IF submissionId \notin DOMAIN subs
     THEN UNCHANGED subs /\ Respond(404, "Submission not found", 0)
     ELSE LET submission == subs[submissionId]
              quiz == quizzes[submission.quiz]
          IN IF ~MayEvaluate(quiz, user)
             THEN UNCHANGED subs /\ Respond(403, "Not authorized to evaluate this submission", 0)
             ELSE LET graded == IF manualGrades.given
                                THEN Regrade(submission, quiz, manualGrades.grades)
                                ELSE submission
                      evaluated == [graded EXCEPT !.evaluatedBy = user,
                                                  !.evaluatedAt = clock,
                                                  !.feedback = feedback,
                                                  !.status = "evaluated"]
                      withAI == IF ~evaluated.aiInsights /\ ~aiThrows
                                THEN [evaluated EXCEPT !.aiInsights = TRUE]
                                ELSE evaluated
                  IN IF ~evaluated.aiInsights /\ aiThrows
                     THEN UNCHANGED subs /\ Thrown("AI evaluation error")
                     ELSE /\ subs' = [subs EXCEPT ![submissionId] = preSave(withAI)]
                          /\ Respond(200, "Submission evaluated successfully",
                                     submissionId)

\* PUT /api/submissions/:id/evaluate.  aiThrows: geminiAI.evaluateSubmission fails.
evaluateSubmission(user, submissionId, feedback, manualGrades, aiThrows) ==
  /\ UNCHANGED <<comps, clock, quizzes, users, pc, loc>>
  /\ IF submissionId \notin DOMAIN subs
     THEN UNCHANGED subs /\ Respond(404, "Submission not found", 0)
     ELSE LET submission == subs[submissionId]
              quiz == quizzes[submission.quiz]
          IN IF ~MayEvaluate(quiz, user)
             THEN UNCHANGED subs /\ Respond(403, "Not authorized to evaluate this submission", 0)
             ELSE LET graded == IF manualGrades.given
                                THEN Regrade(submission, quiz, manualGrades.grades)
                                ELSE submission
                      evaluated == [graded EXCEPT !.evaluatedBy = user,
                                                  !.evaluatedAt = clock,
                                                  !.feedback = feedback,
                                                  !.status = "evaluated"]
                      withAI == IF ~evaluated.aiInsights /\ ~aiThrows
                                THEN [evaluated EXCEPT !.aiInsights = TRUE]
                                ELSE evaluated
                  IN /\ subs' = [subs EXCEPT ![submissionId] = preSave(withAI)]
                     /\ Respond(200, "Submission evaluated successfully", submissionId)

\* POST /api/quiz/submission/:id/feedback
generateAIFeedback(user, submissionId, aiThrows) ==
  /\ UNCHANGED <<comps, clock, quizzes, users, pc, loc>>
  /\ IF submissionId \notin DOMAIN subs
     THEN UNCHANGED subs /\ Respond(404, "Submission not found", 0)
     ELSE LET submission == subs[submissionId]
              quiz == quizzes[submission.quiz]
          IN IF ~MayEvaluate(quiz, user)
             THEN UNCHANGED subs /\ Respond(403, "Not authorized to generate feedback for this submission", 0)
             ELSE IF aiThrows
             THEN UNCHANGED subs /\ Respond(500, "Failed to generate AI feedback", 0)
             ELSE /\ subs' = [subs EXCEPT ![submissionId] =
                                preSave([submission EXCEPT !.aiInsights = TRUE,
                                                           !.evaluatedAt = clock,
                                                           !.evaluatedBy = user,
                                                           !.status = "evaluated"])]
                  /\ Respond(200, "AI feedback generated successfully", submissionId)

\* The request without the `revaluation.requested` test.
requestRevaluation_Again(user, submissionId, reason) ==
  /\ UNCHANGED <<comps, clock, quizzes, users, pc, loc>>
  /\ IF submissionId \notin DOMAIN subs
     THEN UNCHANGED subs /\ Respond(404, "Submission not found", 0)
     ELSE IF subs[submissionId].student # user
     THEN UNCHANGED subs
          /\ Respond(403, "Not authorized to request revaluation for this submission", 0)
     ELSE IF subs[submissionId].status # "evaluated"
     THEN UNCHANGED subs
          /\ Respond(400, "Can only request revaluation for evaluated submissions", 0)
     ELSE /\ subs' = [subs EXCEPT ![submissionId] =
                        preSave([subs[submissionId] EXCEPT !.revRequested = TRUE,
                                                          !.requestedAt = clock,
                                                          !.revReason = reason,
                                                          !.revStatus = "pending"])]
          /\ Respond(200, "Revaluation requested successfully", submissionId)

\* POST /api/submissions/:id/revaluation
requestRevaluation(user, submissionId, reason) ==
  /\ UNCHANGED <<comps, clock, quizzes, users, pc, loc>>
  /\ IF submissionId \notin DOMAIN subs
     THEN UNCHANGED subs /\ Respond(404, "Submission not found", 0)
     ELSE IF subs[submissionId].student # user
     THEN UNCHANGED subs /\ Respond(403, "Not authorized to request revaluation for this submission", 0)
     ELSE IF subs[submissionId].status # "evaluated"
     THEN UNCHANGED subs
          /\ Respond(400, "Can only request revaluation for evaluated submissions", 0)
     ELSE IF subs[submissionId].revRequested
     THEN UNCHANGED subs /\ Respond(400, "Revaluation already requested for this submission", 0)
     ELSE /\ subs' = [subs EXCEPT ![submissionId] =
                        preSave([subs[submissionId] EXCEPT !.revRequested = TRUE,
                                                          !.requestedAt = clock,
                                                          !.revReason = reason,
                                                          !.revStatus = "pending"])]
          /\ Respond(200, "Revaluation requested successfully", submissionId)

\* The values the schema's enum accepts for revaluation.status.
RevStatusEnum == {"pending", "approved", "denied"}

\* PUT /api/submissions/:id/revaluation
\* `Revaluation ${status} successfully`
RevaluationMessage(status) ==
  IF status = "approved" THEN "Revaluation approved successfully"
  ELSE IF status = "denied" THEN "Revaluation denied successfully"
  ELSE "Revaluation pending successfully"

\* The handler applying newGrades whatever the decision.
handleRevaluation_AnyDecision(user, submissionId, status, response, newGrades) ==
  /\ UNCHANGED <<comps, clock, quizzes, users, pc, loc>>
  /\ IF submissionId \notin DOMAIN subs
     THEN UNCHANGED subs /\ Respond(404, "Submission not found", 0)
     ELSE LET submission == subs[submissionId]
              quiz == quizzes[submission.quiz]
          IN IF ~MayEvaluate(quiz, user)
             THEN UNCHANGED subs /\ Respond(403, "Not authorized to handle revaluation for this submission", 0)
             ELSE IF ~submission.revRequested
             THEN UNCHANGED subs /\ Respond(400, "No revaluation request found for this submission", 0)
             ELSE IF status \notin RevStatusEnum
             THEN UNCHANGED subs /\ Thrown("ValidationError")
             ELSE LET handled == [submission EXCEPT !.revStatus = status,
                                                    !.handledBy = user,
                                                    !.handledAt = clock,
                                                    !.revResponse = response]
                      regraded == IF newGrades.given
                                  THEN Regrade(handled, quiz, newGrades.grades)
                                  ELSE handled
                  IN /\ subs' = [subs EXCEPT ![submissionId] = preSave(regraded)]
                     /\ Respond(200, RevaluationMessage(status), submissionId)

handleRevaluation(user, submissionId, status, response, newGrades) ==
  /\ UNCHANGED <<comps, clock, quizzes, users, pc, loc>>
  /\ IF submissionId \notin DOMAIN subs
     THEN UNCHANGED subs /\ Respond(404, "Submission not found", 0)
     ELSE LET submission == subs[submissionId]
              quiz == quizzes[submission.quiz]
          IN IF ~MayEvaluate(quiz, user)
             THEN UNCHANGED subs /\ Respond(403, "Not authorized to handle revaluation for this submission", 0)
             ELSE IF ~submission.revRequested
             THEN UNCHANGED subs /\ Respond(400, "No revaluation request found for this submission", 0)
             ELSE IF status \notin RevStatusEnum
             THEN UNCHANGED subs /\ Thrown("ValidationError")
             ELSE LET handled == [submission EXCEPT !.revStatus = status,
                                                    !.handledBy = user,
                                                    !.handledAt = clock,
                                                    !.revResponse = response]
                      regraded == IF status = "approved" /\ newGrades.given
                                  THEN Regrade(handled, quiz, newGrades.grades)
                                  ELSE handled
                  IN /\ subs' = [subs EXCEPT ![submissionId] = preSave(regraded)]
                     /\ Respond(200, RevaluationMessage(status), submissionId)

(***************************************************************************)
(* The competition controller: submitCompetitionEntry                      *)
(* (POST /api/competitions/:id/submit).                                    *)
(***************************************************************************)
CompIds == {"compA"}
ReqCompIds == CompIds \cup {"compX"}     \* compX is the id of no competition

\* Competition.findById, then the checks made on the competition alone.
submitCompetitionEntry_Load(p, user, compId, submissionId) ==
  /\ Idle(p)
  /\ UNCHANGED <<clock, quizzes, users, subs, comps>>
  /\ IF compId \notin DOMAIN comps
     THEN Reply(p, 404, "Competition not found", 0)
     ELSE IF ~isActive(comps[compId], clock)
     THEN Reply(p, 400, "Competition is not active", 0)
     ELSE IF FindUser(comps[compId].participants, user) = 0
     THEN Reply(p, 403, "You are not registered for this competition", 0)
     ELSE Goto(p, "entry_submission",
               [user |-> user, compId |-> compId, competition |-> comps[compId],
                submissionId |-> submissionId])

\* A save that sends a pushed entry as a $push onto the stored array and
\* does not look at the version.
saveCompetition_Push(p, compId, doc) ==
  LET u == loc[p].user
      pushed == FindUser(loc[p].competition.leaderboard, u) = 0
      mine == doc.leaderboard[FindUser(doc.leaderboard, u)]
      stored == comps[compId]
  IN /\ comps' = [comps EXCEPT ![compId] =
                    IF pushed
                    THEN [stored EXCEPT !.leaderboard = Append(@, mine),
                                        !.version = @ + 1]
                    ELSE [doc EXCEPT !.version = stored.version + 1]]
     /\ Reply(p, 200, "Competition entry submitted successfully", 0)

\* A save that writes the document over whatever is stored.
saveCompetition_LastWriter(p, compId, doc) ==
  /\ comps' = [comps EXCEPT ![compId] = [doc EXCEPT !.version = comps[compId].version + 1]]
  /\ Reply(p, 200, "Competition entry submitted successfully", 0)

\* competition.save() as updateLeaderboard calls it.  The sorted leaderboard
\* is written as a whole array, so Mongoose saves only onto the version it
\* loaded and increments it; a document saved by another request since makes
\* the save throw a VersionError.
saveCompetition(p, compId, doc) ==
  IF comps[compId].version # doc.version
  THEN UNCHANGED comps /\ Throw(p, "VersionError")
  ELSE /\ comps' = [comps EXCEPT ![compId] = [doc EXCEPT !.version = @ + 1]]
       /\ Reply(p, 200, "Competition entry submitted successfully", 0)

\* Submission.findById, the checks on the submission, the entry, the
\* participant's status, updateLeaderboard and the response.
submitCompetitionEntry_Enter(p) ==
  /\ pc[p] = "entry_submission"
  /\ UNCHANGED <<clock, quizzes, users, subs>>
  /\ LET l == loc[p]
         competition == l.competition
     IN IF l.submissionId \notin DOMAIN subs \/ subs[l.submissionId].student # l.user
        THEN UNCHANGED comps /\ Reply(p, 404, "Submission not found", 0)
        ELSE IF subs[l.submissionId].quiz # competition.quiz
        THEN UNCHANGED comps /\ Reply(p, 400, "Submission is for a different quiz", 0)
        ELSE LET entered == EnterSubmission(competition, l.user, l.submissionId,
                                            subs[l.submissionId])
                 k == FindUser(competition.participants, l.user)
                 participated == [entered EXCEPT !.participants[k].status = "participated"]
             IN saveCompetition(p, l.compId, updateLeaderboard(participated))

(***************************************************************************)
(* Quizzes and requests of the model.                                      *)
(***************************************************************************)
Option(text, isCorrect) == [text |-> text, isCorrect |-> isCorrect]

Question(id, type, options, correctAnswer, points) ==
  [id |-> id, type |-> type, options |-> options,
   correctAnswer |-> correctAnswer, explanation |-> NULL, points |-> points]

Quiz(questions, timeLimit, allowRetake, autoGrade) ==
  [status |-> "published", isActive |-> TRUE, startDate |-> NoDate, endDate |-> NoDate,
   assignedTo |-> {}, createdBy |-> Teacher,
   timeLimit |-> timeLimit, allowRetake |-> allowRetake, autoGrade |-> autoGrade,
   questions |-> questions,
   totalAttempts |-> 0, averageScore |-> Double(0)]

\* A multiple-choice question and a short-answer one, of the given points.
QuestionsWith(points1, points2) ==
  << Question("a1", "multiple-choice",
              <<Option(<<"a">>, TRUE), Option(<<"b">>, FALSE)>>, NULL, points1),
     Question("a2", "short-answer", <<>>, <<"a">>, points2) >>

\* quizA: a 1-point multiple-choice question and a 2-point short-answer one.
QuestionsA == QuestionsWith(1, 2)

\* quizB: one essay question.
QuestionsB == << Question("b1", "essay", <<>>, NULL, 1) >>

Answer(questionId, answer) == [questionId |-> questionId, answer |-> answer]

GradeEntry(questionId, points) == [questionId |-> questionId, points |-> points]

\* manualGrades / newGrades of a request: not given, or an array of entries.
NoGrades == [given |-> FALSE, grades |-> <<>>]
Grades(grades) == [given |-> TRUE, grades |-> grades]

GradeSheets ==
  {NoGrades} \cup { Grades(<<GradeEntry(q, n)>>) : q \in {"a1", "a2"}, n \in 0..MaxPoints }

\* No competition exists.
NoCompetitions == <<>>

NoUserStats == [totalQuizzes |-> 0, averageScore |-> Double(0)]

InitWith(qz) ==
  /\ clock = 0
  /\ quizzes = qz
  /\ users = [u \in Students |-> NoUserStats]
  /\ subs = <<>>
  /\ comps = NoCompetitions
  /\ pc = [p \in Procs |-> "idle"]
  /\ loc = [p \in Procs |-> NoLocals]
  /\ resp = NoResponse

(***************************************************************************)
(* The requests clients send.                                              *)
(***************************************************************************)
\* Room for one more Submission within the bound.
Room(max) == Len(subs) + Cardinality(Starting) < max

StartRequest(p, students, quizIds, max) ==
  \E u \in students, q \in quizIds : Room(max) /\ startQuizAttempt_Load(p, u, q)

SubmitRequest(p, students, quizIds, sheets) ==
  \E u \in students, i \in ReqSubIds, q \in quizIds, a \in sheets :
    submitQuiz_Load(p, u, i, q, a)

EvaluateRequest(graders, gradeSheets) ==
  \E u \in graders, i \in ReqSubIds, g \in gradeSheets, t \in BOOLEAN :
    evaluateSubmission(u, i, "fb", g, t)

FeedbackRequest(graders) ==
  \E u \in graders, i \in ReqSubIds, t \in BOOLEAN : generateAIFeedback(u, i, t)

RevaluationRequest(students) ==
  \E u \in students, i \in ReqSubIds : requestRevaluation(u, i, "why")

HandleRequest(graders, gradeSheets) ==
  \E u \in graders, i \in ReqSubIds, g \in gradeSheets,
     d \in RevStatusEnum \cup {"bogus"} :
    handleRevaluation(u, i, d, "re", g)

Continue(p) ==
  \/ startQuizAttempt_FindExisting(p)
  \/ startQuizAttempt_FindCompleted(p)
  \/ startQuizAttempt_Create(p)
  \/ submitQuiz_Grade(p)
  \/ submitQuiz_QuizStats(p)
  \/ submitQuiz_UserStats(p)

(***************************************************************************)
(* Spec: the requests of one student on quizA interleave at their awaits,  *)
(* with the teacher's evaluations in between.                              *)
(***************************************************************************)
Init ==
  \E autoGrade \in BOOLEAN, allowRetake \in BOOLEAN :
    InitWith([q \in QuizIds |->
                IF q = "quizA" THEN Quiz(QuestionsA, 1, allowRetake, autoGrade)
                ELSE Quiz(QuestionsB, 0, TRUE, autoGrade)])

ConcSheets == { << Answer("a1", <<"b">>), Answer("a2", <<"A">>) >> }

Next ==
  \/ \E p \in Procs : StartRequest(p, {"s1"}, {"quizA"}, MaxSubs)
  \/ \E p \in Procs : SubmitRequest(p, {"s1"}, {"quizA"}, ConcSheets)
  \/ \E p \in Procs : Continue(p)
  \/ EvaluateRequest({Teacher}, {NoGrades})

Spec == Init /\ [][Next]_vars

(***************************************************************************)
(* The sequential specifications: one request at a time (a request runs to *)
(* its response before the next one arrives), the clock running between    *)
(* requests.                                                               *)
(***************************************************************************)
Serving == "p1"

Both(a, b) == [q \in QuizIds |-> IF q = "quizA" THEN a ELSE b]

Window(quiz, from, to) == [quiz EXCEPT !.startDate = from, !.endDate = to]

(***************************************************************************)
(* StartSpec: starting attempts on quizzes of every availability.          *)
(***************************************************************************)
StartQuizzes ==
  LET quizB == Quiz(QuestionsB, 0, TRUE, FALSE)
  IN { Both(Quiz(QuestionsA, 1, FALSE, TRUE), quizB),
       Both(Quiz(QuestionsA, 1, TRUE, FALSE), [quizB EXCEPT !.status = "draft"]),
       Both(Quiz(QuestionsA, 1, FALSE, FALSE), [quizB EXCEPT !.isActive = FALSE]),
       Both(Quiz(QuestionsA, 1, TRUE, TRUE), [quizB EXCEPT !.assignedTo = {"s2"}]),
       Both(Quiz(QuestionsA, 1, FALSE, TRUE),
            [quizB EXCEPT !.assignedTo = {"s2"}, !.status = "draft"]),
       Both(Window(Quiz(QuestionsA, 1, FALSE, FALSE), NoDate, 0),
            Window(quizB, 500, NoDate)) }

StartInit == \E qz \in StartQuizzes : InitWith(qz)

StartSheets == { << Answer("a1", <<"b">>), Answer("a2", <<"A">>) >> }

StartNext ==
  \/ AllIdle /\ Tick({0, 500})
  \/ AllIdle /\ StartRequest(Serving, Students, ReqQuizIds, MaxSubs)
  \/ AllIdle /\ SubmitRequest(Serving, Students, QuizIds, StartSheets)
  \/ Continue(Serving)

StartSpec == StartInit /\ [][StartNext]_vars

(***************************************************************************)
(* ViewSpec: starting attempts on quizzes that differ only in what marks   *)
(* an answer as right: the correctAnswer and the explanation of a question *)
(* and the isCorrect flag of an option.                                    *)
(***************************************************************************)
\* The question lists that differ from the given one in those fields only.
Variants(questions) ==
  LET OptionVariants(options) ==
        { [k \in DOMAIN options |-> [options[k] EXCEPT !.isCorrect = f[k]]] :
            f \in [DOMAIN options -> BOOLEAN] }
      QuestionVariants(q) ==
        { [q EXCEPT !.correctAnswer = c, !.explanation = e, !.options = o] :
            c \in {<<"a">>, <<"b">>}, e \in {<<>>, <<"w">>},
            o \in OptionVariants(q.options) }
  IN { v \in [DOMAIN questions ->
                UNION { QuestionVariants(questions[i]) : i \in DOMAIN questions }] :
         \A i \in DOMAIN questions : v[i] \in QuestionVariants(questions[i]) }

ViewInit ==
  \E qs \in Variants(QuestionsA), allowRetake \in BOOLEAN :
    InitWith(Both(Quiz(qs, 1, allowRetake, TRUE), Quiz(QuestionsB, 0, TRUE, FALSE)))

ViewNext ==
  \/ AllIdle /\ StartRequest(Serving, {"s1"}, ReqQuizIds, MaxSubs)
  \/ AllIdle /\ SubmitRequest(Serving, {"s1"}, {"quizA"}, StartSheets)
  \/ Continue(Serving)

ViewSpec == ViewInit /\ [][ViewNext]_vars

(***************************************************************************)
(* SubmitSpec: a student starts attempts on a quiz with a one-minute limit *)
(* and on a quiz with time limit 0; both students send submits for them,   *)
(* early and late.                                                         *)
(***************************************************************************)
SubmitInit ==
  \E autoGrade \in BOOLEAN :
    InitWith(Both(Quiz(QuestionsA, 1, TRUE, autoGrade),
                  Quiz(QuestionsB, 0, FALSE, autoGrade)))

SubmitSheets == { << Answer("a1", <<"b">>), Answer("a2", <<"A">>) >>,
                  << Answer("a2", NotAString) >> }

SubmitNext ==
  \/ AllIdle /\ Tick({0, 60500, 61000})
  \/ AllIdle /\ StartRequest(Serving, {"s1"}, QuizIds, MaxSubs)
  \/ AllIdle /\ SubmitRequest(Serving, Students, ReqQuizIds, SubmitSheets)
  \/ Continue(Serving)

SubmitSpec == SubmitInit /\ [][SubmitNext]_vars

(***************************************************************************)
(* EvalSpec: a student's attempt on quizA (no retakes) is submitted,       *)
(* evaluated by teachers and revalued.  The points of quizA's two          *)
(* questions are 1 and 2, 4 and 16, or 8 and 12.                           *)
(***************************************************************************)
EvalQuestions == { QuestionsWith(1, 2), QuestionsWith(4, 16), QuestionsWith(8, 12) }

EvalInit ==
  \E autoGrade \in BOOLEAN, questions \in EvalQuestions :
    InitWith(Both(Quiz(questions, 1, FALSE, autoGrade),
                  Quiz(QuestionsB, 0, TRUE, autoGrade)))

EvalSheets == { << Answer("a1", <<"b">>), Answer("a2", <<"A">>) >>,
                << Answer("a1", <<"a">>), Answer("a2", <<"b">>) >> }

EvalNext ==
  \/ AllIdle /\ StartRequest(Serving, {"s1"}, {"quizA"}, MaxSubs)
  \/ AllIdle /\ SubmitRequest(Serving, {"s1"}, {"quizA"}, EvalSheets)
  \/ Continue(Serving)
  \/ AllIdle /\ EvaluateRequest(Graders, GradeSheets)
  \/ AllIdle /\ FeedbackRequest(Graders)
  \/ AllIdle /\ RevaluationRequest(Students)
  \/ AllIdle /\ HandleRequest(Graders, GradeSheets)

EvalSpec == EvalInit /\ [][EvalNext]_vars

(***************************************************************************)
(* ScoreSpec: a student submits one attempt on quizA, which is either two  *)
(* 1-point multiple-choice questions, or a 0-point true-false question, a  *)
(* 2-point short-answer question and a 1-point essay; the answer sheet     *)
(* leaves questions out, names unknown questions, varies case and spacing. *)
(***************************************************************************)
ScoreQuestions ==
  { << Question("a1", "multiple-choice",
                <<Option(<<"a">>, TRUE), Option(<<"b">>, FALSE)>>, NULL, 1),
       Question("a2", "multiple-choice",
                <<Option(<<"a">>, FALSE), Option(<<"b">>, TRUE)>>, NULL, 1) >>,
    << Question("a1", "true-false", <<>>, <<"A">>, 0),
       Question("a2", "short-answer", <<>>, <<"a">>, 2),
       Question("a3", "essay", <<>>, NULL, 1) >> }

ScoreInit ==
  \E autoGrade \in BOOLEAN, questions \in ScoreQuestions :
    InitWith(Both(Quiz(questions, 1, FALSE, autoGrade),
                  Quiz(QuestionsB, 0, FALSE, autoGrade)))

ScoreSheets ==
  {<<>>}
    \cup { <<Answer(q, t)>> : q \in {"a1", "a2", "a3", "zz"}, t \in Texts }
    \cup { <<Answer("a1", t), Answer("a2", u)>> : t \in Texts, u \in Texts }

ScoreNext ==
  \/ AllIdle /\ StartRequest(Serving, {"s1"}, {"quizA"}, MaxSubs)
  \/ AllIdle /\ SubmitRequest(Serving, {"s1"}, {"quizA"}, ScoreSheets)
  \/ Continue(Serving)

ScoreSpec == ScoreInit /\ [][ScoreNext]_vars

(***************************************************************************)
(* AISpec: a student's attempt on quizA is submitted, and evaluated by the *)
(* quiz's teacher and by another, with the AI collaborator answering or    *)
(* throwing.                                                               *)
(***************************************************************************)
AIInit ==
  \E autoGrade \in BOOLEAN :
    InitWith(Both(Quiz(QuestionsA, 1, FALSE, autoGrade),
                  Quiz(QuestionsB, 0, TRUE, autoGrade)))

AIGradeSheets == { NoGrades, Grades(<<GradeEntry("a1", MaxPoints)>>) }

AINext ==
  \/ AllIdle /\ StartRequest(Serving, {"s1"}, {"quizA"}, MaxSubs)
  \/ AllIdle /\ SubmitRequest(Serving, {"s1"}, {"quizA"}, EvalSheets)
  \/ Continue(Serving)
  \/ AllIdle /\ EvaluateRequest(Graders, AIGradeSheets)
  \/ AllIdle /\ FeedbackRequest(Graders)

AISpec == AIInit /\ [][AINext]_vars

(***************************************************************************)
(* CompSpec: the students enter their attempts into competition compA on   *)
(* quizA; the requests interleave at their awaits.  The attempts exist     *)
(* from the start, as startQuizAttempt and submitQuiz leave them.          *)
(***************************************************************************)
\* The attempt a student started at from and submitted with answers at to.
FinishedAttempt(quizId, quiz, student, from, to, answers) ==
  LET started == NewSubmission(quizId, student, from, quiz.timeLimit)
  IN saveSubmitted(started, Submitted(started, quiz, answers, to), quiz.autoGrade)

\* quizA: an 80-point and a 20-point question.
CompQuizzes == Both(Quiz(QuestionsWith(80, 20), 0, TRUE, TRUE),
                    Quiz(QuestionsB, 0, TRUE, FALSE))

\* The first right and the second wrong / both right / only the first, right.
FirstRight == << Answer("a1", <<"a">>), Answer("a2", <<"b">>) >>
BothRight == << Answer("a1", <<"a">>), Answer("a2", <<"a">>) >>
OnlyFirst == << Answer("a1", <<"a">>) >>

CompSubmissions ==
  LET quizA == CompQuizzes["quizA"]
      quizB == CompQuizzes["quizB"]
  IN << FinishedAttempt("quizA", quizA, "s1", 0, 120000, FirstRight),
        FinishedAttempt("quizA", quizA, "s2", 0, 90000, FirstRight),
        FinishedAttempt("quizA", quizA, "s1", 0, 200000, BothRight),
        FinishedAttempt("quizA", quizA, "s2", 0, 120000, OnlyFirst),
        FinishedAttempt("quizA", quizA, "s1", 0, 60000, FirstRight),
        FinishedAttempt("quizB", quizB, "s1", 0, 60000, <<>>),
        NewSubmission("quizA", "s2", 250000, 0) >>

Competition(status, from, to, participants) ==
  [quiz |-> "quizA", status |-> status,
   competitionStart |-> from, competitionEnd |-> to,
   participants |-> participants, leaderboard |-> <<>>, version |-> 0]

CompCompetitions ==
  { Competition("active", 0, 400000, <<Participant("s1"), Participant("s2")>>),
    Competition("active", 350000, 400000, <<Participant("s2"), Participant("s1")>>),
    Competition("active", 0, 400000, <<Participant("s1")>>),
    Competition("completed", 0, 400000, <<Participant("s1"), Participant("s2")>>) }

CompInit ==
  /\ clock = 300000
  /\ quizzes = CompQuizzes
  /\ users = [u \in Students |-> NoUserStats]
  /\ subs = CompSubmissions
  /\ \E c \in CompCompetitions : comps = [id \in CompIds |-> c]
  /\ pc = [p \in Procs |-> "idle"]
  /\ loc = [p \in Procs |-> NoLocals]
  /\ resp = NoResponse

EntryRequest(p, students, compIds) ==
  \E u \in students, c \in compIds, i \in ReqSubIds :
    submitCompetitionEntry_Load(p, u, c, i)

\* The competitions have been saved fewer than MaxSaves times.
SavesLeft == \A c \in CompIds : comps[c].version < MaxSaves

CompNext ==
  \/ Tick({500000})
  \/ \E p \in Procs : SavesLeft /\ EntryRequest(p, Students, ReqCompIds)
  \/ \E p \in Procs : submitCompetitionEntry_Enter(p)

CompSpec == CompInit /\ [][CompNext]_vars

(***************************************************************************)
(* BestSpec: the students enter into compA, one request at a time, their   *)
(* attempts on quizA, among them one that answers only the 20-point        *)
(* question, and answers it right.                                         *)
(***************************************************************************)
BestSubmissions ==
  LET quizA == CompQuizzes["quizA"]
  IN << FinishedAttempt("quizA", quizA, "s1", 0, 120000, FirstRight),
        FinishedAttempt("quizA", quizA, "s1", 0, 100000, <<Answer("a2", <<"a">>)>>),
        FinishedAttempt("quizA", quizA, "s2", 0, 200000, BothRight),
        FinishedAttempt("quizA", quizA, "s2", 0, 90000, FirstRight) >>

BestInit ==
  /\ clock = 300000
  /\ quizzes = CompQuizzes
  /\ users = [u \in Students |-> NoUserStats]
  /\ subs = BestSubmissions
  /\ \E c \in CompCompetitions : comps = [id \in CompIds |-> c]
  /\ pc = [p \in Procs |-> "idle"]
  /\ loc = [p \in Procs |-> NoLocals]
  /\ resp = NoResponse

BestNext ==
  \/ AllIdle /\ Tick({500000})
  \/ AllIdle /\ SavesLeft /\ EntryRequest(Serving, Students, ReqCompIds)
  \/ submitCompetitionEntry_Enter(Serving)

BestSpec == BestInit /\ [][BestNext]_vars

(***************************************************************************)
(* RankSpec: updateLeaderboard is called, again and again, on competition  *)
(* compA holding any leaderboard of up to MaxEntries entries, ranked or    *)
(* not, with scores and times that tie.                                    *)
(***************************************************************************)
RankUsers == <<"s1", "s2", "u3", "u4">>

\* The leaderboards of n entries, one per user.
RECURSIVE RankLeaderboards(_)
RankLeaderboards(n) ==
  IF n = 0 THEN {<<>>}
  ELSE { Append(l, [user |-> RankUsers[n], submission |-> n,
                    score |-> s, percentage |-> s, completionTime |-> t,
                    rank |-> r, completedAt |-> 1000 * t]) :
           l \in RankLeaderboards(n - 1), s \in {80, 100}, t \in {90, 120},
           r \in {0, 1} }

RankInit ==
  /\ clock = 300000
  /\ quizzes = CompQuizzes
  /\ users = [u \in Students |-> NoUserStats]
  /\ subs = <<>>
  /\ \E n \in 0..MaxEntries : \E l \in RankLeaderboards(n) :
       comps = [id \in CompIds |->
                  [Competition("active", 0, 400000, <<>>) EXCEPT !.leaderboard = l]]
  /\ pc = [p \in Procs |-> "idle"]
  /\ loc = [p \in Procs |-> NoLocals]
  /\ resp = NoResponse

\* competition.updateLeaderboard() on the stored competition: sort, rank,
\* save.
updateLeaderboard_Call(compId) ==
  /\ comps[compId].version < MaxSaves
  /\ comps' = [comps EXCEPT ![compId] = [updateLeaderboard(@) EXCEPT !.version = @ + 1]]
  /\ UNCHANGED <<clock, quizzes, users, subs, pc, loc, resp>>

RankNext == \E c \in CompIds : updateLeaderboard_Call(c)

RankSpec == RankInit /\ [][RankNext]_vars

(***************************************************************************)
(* StatsSpec: student s1 takes quizA (two questions of one point) up to    *)
(* MaxHistory times if it allows retakes, once if not, one request at a    *)
(* time, each attempt scoring 50 or 100 percent.                           *)
(***************************************************************************)
StatsInit ==
  \E allowRetake \in BOOLEAN :
    InitWith(Both(Quiz(QuestionsWith(1, 1), 0, allowRetake, TRUE),
                  Quiz(QuestionsB, 0, TRUE, FALSE)))

StatsSheets == { FirstRight, BothRight }

StatsNext ==
  \/ AllIdle /\ StartRequest(Serving, {"s1"}, {"quizA"}, MaxHistory)
  \/ AllIdle /\ SubmitRequest(Serving, {"s1"}, {"quizA"}, StatsSheets)
  \/ Continue(Serving)

StatsSpec == StatsInit /\ [][StatsNext]_vars

(***************************************************************************)
(* GradeSpec: student s1 takes quizA, whose two questions carry points     *)
(* that put an attempt with the first answer right at 94.99, 95, 59.9 or   *)
(* 60 percent of the possible points.                                      *)
(***************************************************************************)
BoundaryPoints == { <<9499, 501>>, <<19, 1>>, <<599, 401>>, <<3, 2>> }

GradeInit ==
  \E points \in BoundaryPoints, allowRetake \in BOOLEAN :
    InitWith(Both(Quiz(QuestionsWith(points[1], points[2]), 0, allowRetake, TRUE),
                  Quiz(QuestionsB, 0, TRUE, FALSE)))

GradeNext ==
  \/ AllIdle /\ StartRequest(Serving, {"s1"}, {"quizA"}, MaxSubs)
  \/ AllIdle /\ SubmitRequest(Serving, {"s1"}, {"quizA"}, StatsSheets)
  \/ Continue(Serving)

GradeSpec == GradeInit /\ [][GradeNext]_vars

(***************************************************************************)
(* StaleSpec: student s1 starts attempts on quizA, which has a one-minute  *)
(* limit and closes at 100 seconds, and lets the time run out; s1 goes on  *)
(* sending starts and submits, and the quiz's teacher evaluates attempts.  *)
(***************************************************************************)
StaleInit ==
  \E allowRetake \in BOOLEAN :
    InitWith(Both(Window(Quiz(QuestionsA, 1, allowRetake, FALSE), NoDate, 100000),
                  Quiz(QuestionsB, 0, TRUE, FALSE)))

StaleNext ==
  \/ AllIdle /\ Tick({61000, 200000})
  \/ AllIdle /\ StartRequest(Serving, {"s1"}, {"quizA"}, MaxSubs)
  \/ AllIdle /\ SubmitRequest(Serving, {"s1"}, ReqQuizIds, ConcSheets)
  \/ Continue(Serving)
  \/ AllIdle /\ EvaluateRequest({Teacher}, {NoGrades})

StaleSpec == StaleInit /\ [][StaleNext]_vars

(***************************************************************************)
(* Claims.                                                                 *)
(***************************************************************************)
InProgress(quizId, student) ==
  {i \in DOMAIN subs : /\ subs[i].quiz = quizId /\ subs[i].student = student
                       /\ subs[i].status = "in-progress"}

Completed(quizId, student) ==
  {i \in DOMAIN subs : /\ subs[i].quiz = quizId /\ subs[i].student = student
                       /\ subs[i].status \in {"submitted", "evaluated"}}

\* C1: under every interleaving of the startAttempt calls of one student for
\* one quiz, at most one Submission of the pair is in-progress in every
\* reachable state.
C1_OneInProgress ==
  \A q \in QuizIds, u \in Students : Cardinality(InProgress(q, u)) <= 1

StartLabels == {"start_find", "start_retake", "start_create"}
SubmitLabels == {"submit_quiz", "submit_qstats", "submit_ustats"}
StartRefusals == {"Quiz not found", "Quiz is not available at this time",
                  "You are not assigned to this quiz"}

\* The step creates a Submission, and every condition of startAttempt holds
\* of the quiz and the student the new Submission names.
C2_Created ==
  LET n == Len(subs) + 1
      new == subs'[n]
      quiz == quizzes[new.quiz]
  IN /\ Len(subs') = n
     /\ \A i \in DOMAIN subs : subs'[i] = subs[i]
     /\ resp'.code = 201 /\ resp'.data = n
     /\ new.quiz \in DOMAIN quizzes
     /\ quiz.status = "published"
     /\ quiz.startDate = NoDate \/ quiz.startDate <= clock
     /\ quiz.endDate = NoDate \/ clock <= quiz.endDate
     /\ new.student \in quiz.assignedTo \/ quiz.assignedTo = {}
     /\ InProgress(new.quiz, new.student) = {}
     /\ quiz.allowRetake \/ Completed(new.quiz, new.student) = {}
     /\ new.status = "in-progress"
     /\ new.startTime = clock
     /\ new.timeLimit = quiz.timeLimit * 60

C2_Step ==
  \A p \in Procs :
    \* the set of Submissions changes only by a creation that meets the conditions
    /\ subs' # subs /\ pc[p] \in StartLabels => C2_Created
    \* a call that ends in a failure leaves the Submissions as they were
    /\ (pc[p] \in StartLabels /\ pc'[p] = "idle" /\ resp'.code # 201) => subs' = subs
    /\ (resp' # resp /\ resp'.msg \in StartRefusals) => subs' = subs
    \* an in-progress Submission of the pair: ConflictError carrying it
    /\ (pc[p] = "start_find" /\ InProgress(loc[p].quizId, loc[p].user) # {})
         => /\ resp'.code = 400
            /\ resp'.data \in InProgress(loc[p].quizId, loc[p].user)
            /\ subs' = subs /\ pc'[p] = "idle"
    \* retakes disallowed and a completed Submission of the pair: PolicyError
    /\ (/\ pc[p] \in {"start_find", "start_retake"}
        /\ InProgress(loc[p].quizId, loc[p].user) = {}
        /\ ~quizzes[loc[p].quizId].allowRetake
        /\ Completed(loc[p].quizId, loc[p].user) # {})
         => /\ subs' = subs
            /\ pc'[p] = "idle" => resp'.msg = "Retakes are not allowed for this quiz"
            /\ pc'[p] \in {"idle", "start_retake"}

\* C2: startAttempt creates a Submission only when the quiz is published and
\* inside its schedule window, the student is assigned or the quiz has no
\* assignees, the pair has no in-progress Submission, and retakes are allowed
\* or the pair has no submitted/evaluated Submission; otherwise it answers
\* with a failure (the in-progress record, or the retake refusal) and the
\* Submissions are unchanged; the Submission created is in-progress with
\* timeLimit = settings.timeLimit * 60.
C2_StartAttemptGuards == [][C2_Step]_vars

\* A retake: quizB allows retakes, its first attempt is completed and a second
\* attempt has just been created.
C2_Witness ==
  /\ Len(subs) = 2
  /\ resp.code = 201 /\ resp.data = 2
  /\ subs[2].status = "in-progress"
  /\ subs[1].status \in {"submitted", "evaluated"}
  /\ subs[1].quiz = subs[2].quiz /\ subs[1].student = subs[2].student

\* The transitions of a Submission's status the claim allows, from one state
\* to the next.
C3_Allowed(before, after, autoGrade) ==
  \/ after.status = before.status
  \/ /\ before.status = "in-progress" /\ after.status = "submitted"
     /\ ~autoGrade
     /\ pc[Serving] = "submit_quiz"
  \/ /\ before.status = "in-progress" /\ after.status = "evaluated"
     /\ autoGrade /\ after.autoGraded
     /\ pc[Serving] = "submit_quiz"
  \/ /\ before.status = "submitted" /\ after.status = "evaluated"

C3_Step ==
  \A i \in DOMAIN subs :
    C3_Allowed(subs[i], subs'[i], quizzes[subs[i].quiz].autoGrade)

\* C3: a Submission's status changes only in-progress -> submitted (submit,
\* autoGrade off), in-progress -> evaluated with autoGraded (submit, autoGrade
\* on) and submitted -> evaluated; no operation takes a Submission from
\* in-progress to evaluated without a submit, nor back to an earlier status.
C3_StatusTransitions == [][C3_Step]_vars

Finalized(student) ==
  {i \in DOMAIN subs : subs[i].student = student /\ subs[i].status # "in-progress"}

RECURSIVE C4_Attempts(_)
C4_Attempts(ids) ==
  IF ids = {} THEN 0
  ELSE LET q == CHOOSE x \in ids : TRUE
       IN quizzes[q].totalAttempts + C4_Attempts(ids \ {q})

C4_Step ==
  LET l == loc[Serving]
      id == l.submissionId
  IN \* a submit past its first check names an existing Submission of the
     \* caller that was in-progress
     /\ pc[Serving] \in SubmitLabels
          => /\ id \in DOMAIN subs
             /\ subs[id].student = l.user
             /\ l.submission.student = l.user
     /\ pc[Serving] = "submit_quiz" => subs[id].status = "in-progress"
     \* a submit that is refused changes nothing
     /\ (resp' # resp /\ resp'.code # 200 /\ resp'.code # 201)
          => UNCHANGED <<subs, quizzes, users>>
     \* a Submission is finalized at most once: one that has left in-progress
     \* never changes again, and only the named one changes
     /\ \A i \in DOMAIN subs :
          subs'[i] # subs[i]
            => /\ subs[i].status = "in-progress"
               /\ pc[Serving] = "submit_quiz" /\ i = id
               /\ subs'[i].status # "in-progress"
     \* the statistics move by one attempt, in a submit that finalized
     /\ quizzes' # quizzes
          => /\ pc[Serving] = "submit_qstats"
             /\ quizzes'[l.quizId].totalAttempts = quizzes[l.quizId].totalAttempts + 1
             /\ \A q \in QuizIds \ {l.quizId} : quizzes'[q] = quizzes[q]
     /\ users' # users
          => /\ pc[Serving] = "submit_ustats"
             /\ users'[l.user].totalQuizzes = users[l.user].totalQuizzes + 1
             /\ \A u \in Students \ {l.user} : users'[u] = users[u]
     /\ C4_Attempts(QuizIds) <= Cardinality(UNION {Finalized(u) : u \in Students})
     /\ \A u \in Students : users[u].totalQuizzes <= Cardinality(Finalized(u))

\* C4: submitAttempt changes state only for an existing Submission of the
\* calling student that is in-progress; for a missing one, another student's
\* or a finalized one the call fails and the Submissions, the quiz statistics
\* and the user stats are unchanged, so that in a sequential history a
\* Submission is finalized at most once.
C4_SubmitGuards == [][C4_Step]_vars

\* Both of s1's attempts are finalized, each counted once in the stats, and a
\* further submit has just been refused.
C4_Witness ==
  /\ Len(subs) = 2
  /\ \A i \in DOMAIN subs : subs[i].status # "in-progress" /\ subs[i].student = "s1"
  /\ users["s1"].totalQuizzes = 2
  /\ C4_Attempts(QuizIds) = 2
  /\ resp.code = 404 /\ resp.msg = "Active submission not found"

\* The submit of Serving is at its time-limit test, on a quiz that exists.
C5_AtTest == pc[Serving] = "submit_quiz" /\ loc[Serving].quizId \in DOMAIN quizzes

\* Whole seconds since the start of the Submission being submitted.
C5_Elapsed == (clock - subs[loc[Serving].submissionId].startTime) \div 1000

C5_Refused ==
  /\ resp'.code = 400 /\ resp'.msg = "Time limit exceeded"
  /\ pc'[Serving] = "idle"
  /\ UNCHANGED <<subs, quizzes, users>>

\* Accepted: the Submission is finalized at this instant, unless grading the
\* answers fails.
C5_Accepted ==
  LET id == loc[Serving].submissionId
  IN \/ pc'[Serving] = "idle" /\ resp'.msg = "TypeError" /\ subs' = subs
     \/ /\ pc'[Serving] = "submit_qstats"
        /\ subs'[id].status \in {"submitted", "evaluated"}
        /\ subs'[id].endTime = clock

C5_AnyLimitStep ==
  LET timeLimit == subs[loc[Serving].submissionId].timeLimit
  IN C5_AtTest => IF C5_Elapsed > timeLimit THEN C5_Refused ELSE C5_Accepted

\* C5 as stated: for every timeLimit, 0 included, a submit after more than
\* timeLimit whole seconds fails with the time-limit error and leaves the
\* Submission as it was, and a submit within timeLimit seconds is accepted.
C5_AnyLimit == [][C5_AnyLimitStep]_vars

C5_PositiveLimitStep ==
  LET timeLimit == subs[loc[Serving].submissionId].timeLimit
  IN C5_AtTest =>
       IF timeLimit > 0 /\ C5_Elapsed > timeLimit THEN C5_Refused ELSE C5_Accepted

\* C5, amended: for a timeLimit above 0, a submit after more than timeLimit
\* whole seconds fails with the time-limit error and leaves the Submission as
\* it was, and a submit within timeLimit seconds is accepted; a timeLimit of 0
\* is no limit, the submit is accepted whatever the time elapsed.
C5_PositiveLimit == [][C5_PositiveLimitStep]_vars

\* An attempt with timeLimit 0 was accepted after a minute, and the submit of
\* an attempt with a 60-second limit has just been refused as late.
C5_Witness ==
  \E i, j \in DOMAIN subs :
    /\ subs[i].timeLimit = 0 /\ subs[i].status # "in-progress"
    /\ subs[i].totalTime >= 60
    /\ subs[j].timeLimit = 60 /\ subs[j].status = "in-progress"
    /\ (clock - subs[j].startTime) \div 1000 > 60
    /\ resp.code = 400 /\ resp.msg = "Time limit exceeded"

RECURSIVE C6_Possible(_)
C6_Possible(questions) ==
  IF questions = <<>> THEN 0 ELSE Head(questions).points + C6_Possible(Tail(questions))

RECURSIVE C6_Earned(_)
C6_Earned(answers) ==
  IF answers = <<>> THEN 0 ELSE Head(answers).points + C6_Earned(Tail(answers))

\* round(100 * n / d), halves upwards
C6_Round(n, d) == (200 * n + d) \div (2 * d)

\* C6: the score a submit stores has total = the sum of the earned points and
\* percentage = round(100 * total / P), P the sum of the points of all the
\* questions of the quiz, answered or not (stated here for the quizzes whose
\* questions are all worth at least a point, such as the quiz of two 1-point
\* multiple-choice questions: one correct answer gives 50).
C6_PercentageOfAllQuestions ==
  \A i \in DOMAIN subs :
    LET questions == quizzes[subs[i].quiz].questions
        P == C6_Possible(questions)
    IN (/\ subs[i].status # "in-progress"
        /\ \A q \in DOMAIN questions : questions[q].points >= 1)
         => /\ subs[i].total = C6_Earned(subs[i].answers)
            /\ subs[i].percentage = C6_Round(subs[i].total, P)

C9_SameLetter(c, d) == c = d \/ {c, d} = {"a", "A"} \/ {c, d} = {"b", "B"}

C9_SameIgnoringCase(s, t) ==
  Len(s) = Len(t) /\ \A k \in DOMAIN s : C9_SameLetter(s[k], t[k])

\* s without its leading and trailing spaces
C9_Trimmed(s) ==
  LET inked == {k \in DOMAIN s : s[k] # " "}
  IN IF inked = {} THEN <<>>
     ELSE SubSeq(s, Min(inked), CHOOSE k \in inked : \A j \in inked : j <= k)

C9_Correct(question, answer) ==
  CASE question.type = "multiple-choice" ->
         \E o \in DOMAIN question.options :
           /\ question.options[o].isCorrect
           /\ question.options[o].text = answer
    [] question.type = "true-false" ->
         C9_SameIgnoringCase(question.correctAnswer, answer)
    [] question.type = "short-answer" ->
         C9_SameIgnoringCase(C9_Trimmed(question.correctAnswer), C9_Trimmed(answer))
    [] OTHER -> FALSE

\* C9: after a submit, each answer that matches a question is correct exactly
\* by the rule of the question's type and holds question.points if correct and
\* 0 otherwise, for every question.points >= 0.
C9_PointsOfTheQuestion ==
  \A i \in DOMAIN subs :
    subs[i].status # "in-progress" =>
      \A k \in DOMAIN subs[i].answers :
        LET answer == subs[i].answers[k]
            questions == quizzes[subs[i].quiz].questions
            hits == {q \in DOMAIN questions : questions[q].id = answer.questionId}
        IN hits # {} =>
             LET question == questions[Min(hits)]
                 correct == C9_Correct(question, answer.answer)
             IN /\ answer.isCorrect = correct
                /\ answer.points = IF correct THEN question.points ELSE 0

\* C7: in every reachable state every Submission has 0 <= percentage <= 100,
\* after any sequence of submits, manual evaluations with arbitrary
\* manualGrades and revaluations with arbitrary newGrades.
C7_PercentageInRange ==
  \A i \in DOMAIN subs : 0 <= subs[i].percentage /\ subs[i].percentage <= 100

C8_Table(percentage) ==
  CASE percentage >= 95 -> "A+"
    [] percentage >= 90 /\ percentage < 95 -> "A"
    [] percentage >= 85 /\ percentage < 90 -> "B+"
    [] percentage >= 80 /\ percentage < 85 -> "B"
    [] percentage >= 75 /\ percentage < 80 -> "C+"
    [] percentage >= 70 /\ percentage < 75 -> "C"
    [] percentage >= 60 /\ percentage < 70 -> "D"
    [] OTHER -> "F"

\* C8: in every reachable state the grade of every Submission is the
\* threshold table applied to its percentage (>=95 A+, >=90 A, >=85 B+,
\* >=80 B, >=75 C+, >=70 C, >=60 D, else F), also after a manual evaluation
\* and an approved revaluation have recomputed the percentage.
C8_GradeFollowsPercentage ==
  \A i \in DOMAIN subs : subs[i].grade = C8_Table(subs[i].percentage)

\* An approved revaluation has just regraded a Submission from B (80) to
\* B+ (85).
C8_Witness ==
  \E i \in DOMAIN subs :
    /\ subs[i].revStatus = "approved"
    /\ resp.msg = "Revaluation approved successfully" /\ resp.data = i
    /\ subs[i].percentage = 85 /\ subs[i].grade = "B+"

C10_Step ==
  \A i \in DOMAIN subs :
    IF subs[i].status = "in-progress" /\ subs'[i].status # "in-progress"
    THEN \* the step that takes it out of in-progress writes both
         /\ subs'[i].endTime = clock
         /\ subs'[i].totalTime = (subs'[i].endTime - subs[i].startTime) \div 1000
    ELSE \* no other step writes them
         /\ subs'[i].endTime = subs[i].endTime
         /\ subs'[i].totalTime = subs[i].totalTime

\* C10: totalTime is written once in a Submission's life, at the step that
\* takes it out of in-progress, as endTime - startTime in seconds; no other
\* operation writes endTime or totalTime.
C10_TotalTimeOnce == [][C10_Step]_vars

C11_Requested == "Revaluation requested successfully"

\* What a revaluation request writes.
C11_RequestFields(sub) == <<sub.revRequested, sub.requestedAt, sub.revReason>>

C11_Step ==
  /\ \A i \in DOMAIN subs :
       \* a request that succeeds: the caller's evaluated Submission, not yet
       \* requested; it becomes requested and pending, with the reason
       /\ (resp' # resp /\ resp'.msg = C11_Requested /\ resp'.data = i)
            => /\ subs[i].status = "evaluated"
               /\ ~subs[i].revRequested
               /\ subs'[i] = [subs[i] EXCEPT !.revRequested = TRUE,
                                             !.requestedAt = clock,
                                             !.revReason = "why",
                                             !.revStatus = "pending"]
               /\ \A j \in DOMAIN subs \ {i} : subs'[j] = subs[j]
       \* the request fields are written by a request that succeeds, only
       /\ C11_RequestFields(subs'[i]) # C11_RequestFields(subs[i])
            => resp'.msg = C11_Requested /\ resp'.data = i /\ ~subs[i].revRequested
       \* once requested, always requested
       /\ subs[i].revRequested => subs'[i].revRequested
  \* a request that fails changes nothing
  /\ (/\ resp' # resp
      /\ resp'.msg \in {"Not authorized to request revaluation for this submission",
                        "Can only request revaluation for evaluated submissions",
                        "Revaluation already requested for this submission"})
       => UNCHANGED <<subs, quizzes, users>>

C12_Terminal == {"approved", "denied"}

C12_Score(sub) == <<sub.answers, sub.total, sub.percentage, sub.grade>>

C12_Step ==
  \A i \in DOMAIN subs :
    \* status moves only from pending, to approved or denied
    /\ subs'[i].revStatus # subs[i].revStatus
         => subs[i].revStatus = "pending" /\ subs'[i].revStatus \in C12_Terminal
    \* a revaluation that is approved or denied is handled no more
    /\ subs[i].revStatus \in C12_Terminal
         => /\ subs'[i].revStatus = subs[i].revStatus
            /\ subs'[i].handledBy = subs[i].handledBy
            /\ subs'[i].revResponse = subs[i].revResponse
            /\ (resp'.msg \in {RevaluationMessage(d) : d \in RevStatusEnum}
                /\ resp'.data = i)
                 => C12_Score(subs'[i]) = C12_Score(subs[i])

\* C12: revaluation.status moves only pending -> approved or pending ->
\* denied; once it is approved or denied no handleRevaluation call, whatever
\* its decision, changes revaluation.status, handledBy, response or the score.
C12_RevaluationTerminal == [][C12_Step]_vars

\* sub with what a handled revaluation writes blanked out
C13_Rest(sub) ==
  [sub EXCEPT !.revStatus = "", !.handledBy = "", !.handledAt = 0, !.revResponse = ""]

C13_Step ==
  \A i \in DOMAIN subs :
    (/\ pc[Serving] = "idle" /\ pc'[Serving] = "idle"
     /\ resp'.code = 200 /\ resp'.msg = RevaluationMessage("denied") /\ resp'.data = i)
      => /\ C13_Rest(subs'[i]) = C13_Rest(subs[i])
         /\ subs'[i].answers = subs[i].answers
         /\ subs'[i].total = subs[i].total
         /\ subs'[i].percentage = subs[i].percentage
         /\ subs'[i].grade = subs[i].grade
         /\ subs'[i].revStatus = "denied"

\* C13: handleRevaluation with decision denied leaves the answers and the
\* score of the Submission unchanged, with or without newGrades; only
\* revaluation.status, handledBy, handledAt and response change.
C13_DeniedKeepsScore == [][C13_Step]_vars

\* A revaluation of a Submission graded 33% has just been denied.
C13_Witness ==
  \E i \in DOMAIN subs :
    /\ resp.code = 200 /\ resp.msg = RevaluationMessage("denied") /\ resp.data = i
    /\ subs[i].revStatus = "denied" /\ subs[i].handledBy = Teacher
    /\ subs[i].revResponse = "re"
    /\ subs[i].percentage = 33 /\ subs[i].grade = "F"

\* The outcome the claim describes, of an evaluation of Submission i.
C14_Completed(i) ==
  /\ resp'.code = 200 /\ resp'.msg = "Submission evaluated successfully"
  /\ resp'.data = i
  /\ subs'[i].status = "evaluated"
  /\ subs'[i].evaluatedBy = Teacher
  /\ subs'[i].feedback = "fb"
  /\ ~subs'[i].aiInsights

\* C14: when evaluateManually runs and the AI collaborator's call throws, the
\* operation completes all the same: the Submission is saved evaluated, with
\* evaluatedBy and feedback set and aiInsights left unset, and the caller
\* gets no error.  (Of every Submission without aiInsights, and every
\* manualGrades: the evaluation by the quiz's teacher in which the AI call
\* throws has this outcome and no other.)
C14_AIFailureAbsorbed ==
  \A i \in DOMAIN subs, g \in AIGradeSheets :
    ~subs[i].aiInsights =>
      /\ ENABLED (evaluateSubmission(Teacher, i, "fb", g, TRUE) /\ C14_Completed(i))
      /\ ~ENABLED (evaluateSubmission(Teacher, i, "fb", g, TRUE) /\ ~C14_Completed(i))

\* A submitted Submission has just been evaluated by the teacher, and holds
\* no aiInsights: the AI call threw.
C14_Witness ==
  \E i \in DOMAIN subs :
    /\ resp.code = 200 /\ resp.msg = "Submission evaluated successfully"
    /\ resp.data = i
    /\ subs[i].status = "evaluated" /\ subs[i].endTime # NoDate
    /\ subs[i].evaluatedBy = Teacher /\ subs[i].feedback = "fb"
    /\ ~subs[i].aiInsights

\* The place of a user's entry in a competition's leaderboard, 0 without one.
EntryOf(competition, user) == FindUser(competition.leaderboard, user)

\* What an entry records of the attempt it stands for.
C15_Recorded(entry) ==
  <<entry.submission, entry.score, entry.percentage, entry.completionTime>>

\* The requests about to enter, for the user, a submission that is better
\* than the percentage stored.
C15_Better(compId, user, stored) ==
  {p \in Procs : /\ pc[p] = "entry_submission"
                 /\ loc[p].compId = compId
                 /\ loc[p].user = user
                 /\ loc[p].submissionId \in DOMAIN subs
                 /\ subs[loc[p].submissionId].percentage > stored}

C15_Step ==
  \A c \in CompIds, u \in Students :
    LET e == EntryOf(comps[c], u)
        f == EntryOf(comps'[c], u)
    IN e # 0 =>
         /\ f # 0
         /\ C15_Recorded(comps'[c].leaderboard[f]) # C15_Recorded(comps[c].leaderboard[e])
              => \E p \in C15_Better(c, u, comps[c].leaderboard[e].percentage) :
                   pc'[p] = "idle"

\* C15: a user's leaderboard entry keeps its submission, score, percentage
\* and completionTime through every step, unless the step is the entry of a
\* submission of that user whose percentage is strictly greater than the one
\* stored; entering a percentage less than or equal to it changes nothing.
C15_BestEntryKept == [][C15_Step]_vars

\* s2 has entered three times and the attempt of 80 percent is on the
\* leaderboard: one of the entries met a stored percentage at least as high.
C15_Witness ==
  /\ Len(comps["compA"].leaderboard) = 1
  /\ comps["compA"].leaderboard[1].user = "s2"
  /\ comps["compA"].leaderboard[1].submission = 2
  /\ comps["compA"].version = 3

\* C16: in every reachable state no leaderboard holds two entries of one
\* user, however the entry requests of that user interleave.
C16_OneEntryPerUser ==
  \A c \in CompIds :
    \A i, j \in DOMAIN comps[c].leaderboard :
      comps[c].leaderboard[i].user = comps[c].leaderboard[j].user => i = j

\* Only s1 is registered; of the requests that loaded the competition with
\* its leaderboard empty one has saved an entry and another has failed on
\* its save.
C16_Witness ==
  /\ Len(comps["compA"].participants) = 1
  /\ comps["compA"].version = 1
  /\ Len(comps["compA"].leaderboard) = 1
  /\ comps["compA"].leaderboard[1].user = "s1"
  /\ resp.msg = "VersionError"

\* The ranks of the leaderboard are exactly 1..N, each used once.
C17_Dense(leaderboard) ==
  /\ {leaderboard[i].rank : i \in DOMAIN leaderboard} = 1..Len(leaderboard)
  /\ \A i, j \in DOMAIN leaderboard :
       leaderboard[i].rank = leaderboard[j].rank => i = j

\* The ranks follow the score, descending, then the completionTime, ascending.
C17_Ordered(leaderboard) ==
  \A i, j \in DOMAIN leaderboard :
    LET a == leaderboard[i]
        b == leaderboard[j]
    IN a.rank < b.rank =>
         \/ a.score > b.score
         \/ a.score = b.score /\ a.completionTime <= b.completionTime

\* The leaderboard holds an entry of the user with this score and time.
C17_Has(leaderboard, user, score, time, rank) ==
  \E i \in DOMAIN leaderboard :
    /\ leaderboard[i].user = user
    /\ leaderboard[i].score = score
    /\ leaderboard[i].completionTime = time
    /\ rank # 0 => leaderboard[i].rank = rank

\* Entries {s1: score 80, 120 s} and {s2: score 80, 90 s}.
C17_ScenarioD(leaderboard) ==
  /\ Len(leaderboard) = 2
  /\ C17_Has(leaderboard, "s1", 80, 120, 0)
  /\ C17_Has(leaderboard, "s2", 80, 90, 0)

\* C17: every stored leaderboard (each is the result of a successful entry)
\* of N entries has the ranks 1..N, each once, ordered by score descending
\* and then completionTime ascending; with the entries {s1: 80, 120 s} and
\* {s2: 80, 90 s}, s2 has rank 1 and s1 rank 2.
C17_RanksFollowOrder ==
  \A c \in CompIds :
    /\ C17_Dense(comps[c].leaderboard)
    /\ C17_Ordered(comps[c].leaderboard)
    /\ C17_ScenarioD(comps[c].leaderboard)
         => /\ C17_Has(comps[c].leaderboard, "s2", 80, 90, 1)
            /\ C17_Has(comps[c].leaderboard, "s1", 80, 120, 2)

\* The leaderboard of the scenario has been saved.
C17_Witness ==
  /\ C17_ScenarioD(comps["compA"].leaderboard)
  /\ resp.code = 200

\* C18: updateLeaderboard called on a leaderboard it has already ranked,
\* whose entries have not changed since, leaves every entry's rank and the
\* order of the entries as they are, ties on score and completionTime
\* included.
C18_RankingIdempotent ==
  [][\A c \in CompIds :
       comps[c].version >= 1 => comps'[c].leaderboard = comps[c].leaderboard]_vars

\* A leaderboard with two entries that tie on score and completionTime has
\* been ranked twice.
C18_Witness ==
  /\ comps["compA"].version >= 2
  /\ \E i, j \in DOMAIN comps["compA"].leaderboard :
       /\ i < j
       /\ comps["compA"].leaderboard[i].score = comps["compA"].leaderboard[j].score
       /\ comps["compA"].leaderboard[i].completionTime
            = comps["compA"].leaderboard[j].completionTime

\* The competition exists, has status active with now inside its window,
\* and the user is one of its participants.
C19_CompetitionOk(compId, user, now) ==
  /\ compId \in DOMAIN comps
  /\ comps[compId].status = "active"
  /\ comps[compId].competitionStart <= now
  /\ now <= comps[compId].competitionEnd
  /\ \E k \in DOMAIN comps[compId].participants :
       comps[compId].participants[k].user = user

\* The submission request p names exists, is its user's and is an attempt
\* on the competition's quiz.
C19_SubmissionOk(p) ==
  /\ loc[p].submissionId \in DOMAIN subs
  /\ subs[loc[p].submissionId].student = loc[p].user
  /\ subs[loc[p].submissionId].quiz = comps[loc[p].compId].quiz

\* Request p ends with this step, after its look at the submission.
C19_Ends(p) == pc[p] = "entry_submission" /\ pc'[p] = "idle"

C19_Participated(competition, user) ==
  \A k \in DOMAIN competition.participants :
    competition.participants[k].user = user
      => competition.participants[k].status = "participated"

C19_Step ==
  \* a request gets past the competition only if that is active, at the
  \* time of the request, and the caller registered
  /\ \A p \in Procs :
       pc[p] = "idle" /\ pc'[p] = "entry_submission"
         => C19_CompetitionOk(loc'[p].compId, loc'[p].user, clock)
  \* a request refused at once changes nothing and answers with a failure
  /\ (pc' = pc /\ resp' # resp) => /\ comps' = comps
                                   /\ resp'.code \in {400, 403, 404}
  \* a request with a submission that is missing, another user's or another
  \* quiz's fails and changes nothing; otherwise it succeeds and the caller
  \* has participated, or its save fails and changes nothing
  /\ \A p \in Procs :
       C19_Ends(p) =>
         IF C19_SubmissionOk(p)
         THEN \/ /\ resp'.code = 200
                 /\ C19_Participated(comps'[loc[p].compId], loc[p].user)
              \/ /\ resp'.msg = "VersionError"
                 /\ comps' = comps
         ELSE /\ resp'.code \in {400, 404}
              /\ comps' = comps
  \* the competitions change with such a success only
  /\ comps' # comps
       => \E p \in Procs :
            /\ C19_Ends(p)
            /\ C19_SubmissionOk(p)
            /\ loc[p].competition = comps[loc[p].compId]
            /\ comps[loc[p].compId].status = "active"
            /\ comps[loc[p].compId].competitionStart <= clock
            /\ \E k \in DOMAIN comps[loc[p].compId].participants :
                 comps[loc[p].compId].participants[k].user = loc[p].user
            /\ resp'.code = 200

\* C19: an entry request changes a competition only when the competition is
\* active (status active, the time of the request inside its window), the
\* caller is a registered participant, the submission exists, is the
\* caller's and is on the competition's quiz; a request for which one of
\* these fails is answered with a failure and leaves the leaderboard, the
\* ranks and every participant status unchanged; on success the caller's
\* participant status is participated.
C19_EntryGuards == [][C19_Step]_vars

\* A participant has entered, and the last request, naming an attempt on
\* another quiz, was refused.
C19_Witness ==
  /\ \E k \in DOMAIN comps["compA"].participants :
       comps["compA"].participants[k].status = "participated"
  /\ resp.code = 400
  /\ resp.msg = "Submission is for a different quiz"

\* The percentages of the attempts submitted so far, in their order.
C20_Percentages ==
  LET done == {i \in DOMAIN subs : subs[i].status # "in-progress"}
  IN [k \in 1..Cardinality(done) |->
        subs[CHOOSE i \in done : Cardinality({j \in done : j <= i}) = k].percentage]

RECURSIVE C20_Sum(_)
C20_Sum(ps) == IF ps = <<>> THEN 0 ELSE Head(ps) + C20_Sum(Tail(ps))

\* (p1 + ... + pn) / n, as the Number it is.
C20_Mean(ps) == DoubleOver(Double(C20_Sum(ps)), Len(ps))

\* C20: after a sequential history of n >= 1 successful submissions of s1 on
\* quizA with percentages p1..pn, the quiz's totalAttempts is n and its
\* averageScore is (p1 + ... + pn) / n, and so are the user's totalQuizzes
\* and averageScore.
C20_AverageIsMean ==
  (AllIdle /\ C20_Percentages # <<>>) =>
    /\ quizzes["quizA"].totalAttempts = Len(C20_Percentages)
    /\ quizzes["quizA"].averageScore = C20_Mean(C20_Percentages)
    /\ users["s1"].totalQuizzes = Len(C20_Percentages)
    /\ users["s1"].averageScore = C20_Mean(C20_Percentages)

\* The percentages of the attempts submitQuiz has finished, in their order.
C21_Percentages ==
  LET done == {i \in DOMAIN subs : subs[i].endTime # NoDate}
  IN [k \in 1..Cardinality(done) |->
        subs[CHOOSE i \in done : Cardinality({j \in done : j <= i}) = k].percentage]

\* C21: when no request is in flight, the totalAttempts of quizA and the
\* totalQuizzes of s1 count every attempt submitted and the two averages
\* are the mean of all their percentages, however the submissions
\* interleaved.
C21_NoLostStatistics ==
  (AllIdle /\ C21_Percentages # <<>>) =>
    /\ quizzes["quizA"].totalAttempts = Len(C21_Percentages)
    /\ users["s1"].totalQuizzes = Len(C21_Percentages)
    /\ quizzes["quizA"].averageScore = C20_Mean(C21_Percentages)
    /\ users["s1"].averageScore = C20_Mean(C21_Percentages)

\* Every request that has passed all the checks ends with its user on the
\* leaderboard.
C22_StepAlways ==
  \A p \in Procs :
    (C19_Ends(p) /\ C19_SubmissionOk(p))
      => EntryOf(comps'[loc[p].compId], loc[p].user) # 0

\* C22 as stated: whenever entry requests interleave, each of them that has
\* passed the checks ends with its user's entry on the leaderboard.
C22_BothEntered == [][C22_StepAlways]_vars

C22_Step ==
  \* no step takes a user's entry off the leaderboard
  /\ \A c \in CompIds, u \in Students :
       EntryOf(comps[c], u) # 0 => EntryOf(comps'[c], u) # 0
  \* the ranks stay 1..N
  /\ \A c \in CompIds : C17_Dense(comps'[c].leaderboard)
  \* a request that ends with a success leaves its user's entry; one that
  \* ends otherwise leaves the competition as it is
  /\ \A p \in Procs :
       C19_Ends(p) =>
         IF resp'.code = 200
         THEN EntryOf(comps'[loc[p].compId], loc[p].user) # 0
         ELSE comps' = comps
  \* of the requests that loaded one version of the competition at most one
  \* saves: the others fail on their save
  /\ \A p \in Procs :
       (C19_Ends(p) /\ C19_SubmissionOk(p)
          /\ loc[p].competition.version # comps[loc[p].compId].version)
         => /\ resp'.msg = "VersionError"
            /\ comps' = comps

\* C22, amended: interleaved entry requests never drop an entry nor leave
\* duplicate or missing ranks, and every request answered with a success
\* has its user's entry on the leaderboard; a request whose competition was
\* saved by another request since it loaded it fails with a VersionError
\* and changes nothing.
C22_EntriesSerialized == [][C22_Step]_vars

\* Both users are on the leaderboard after one request failed on its save.
C22_Witness ==
  /\ EntryOf(comps["compA"], "s1") # 0
  /\ EntryOf(comps["compA"], "s2") # 0
  /\ comps["compA"].version = 2
  /\ \E p \in Procs : pc[p] = "idle" /\ resp.msg = "VersionError"

\* The attempts submitQuiz has stored as finished.
C23_Submitted == {i \in DOMAIN subs : subs[i].endTime # NoDate}

\* C23: in every reachable state each attempt that is stored as submitted or
\* evaluated by submitQuiz has been counted in the totalAttempts of quizA
\* and in the totalQuizzes of s1: the three writes happen together or not
\* at all.
C23_AllOrNothing ==
  /\ quizzes["quizA"].totalAttempts >= Cardinality(C23_Submitted)
  /\ users["s1"].totalQuizzes >= Cardinality(C23_Submitted)

(***************************************************************************)
(* C24: the quiz view returned by a started attempt carries no             *)
(* correctAnswer and no explanation of a question and no isCorrect of an   *)
(* option, and it is the same for every quiz that differs from the started *)
(* one only in those fields.                                               *)
(***************************************************************************)
C24_Secrets == {"correctAnswer", "explanation", "isCorrect"}

C24_Started(p) ==
  /\ pc[p] = "start_create"
  /\ pc'[p] = "idle"
  /\ resp'.code = 201

C24_Step ==
  \A p \in Procs :
    C24_Started(p) =>
      /\ "questions" \in DOMAIN resp'
      /\ \A i \in DOMAIN resp'.questions :
           /\ DOMAIN resp'.questions[i] \cap C24_Secrets = {}
           /\ \A k \in DOMAIN resp'.questions[i].options :
                DOMAIN resp'.questions[i].options[k] \cap C24_Secrets = {}
      /\ \A v \in Variants(loc[p].quiz.questions) :
           sanitizedQuestions(v) = resp'.questions

C24_ViewHidesAnswers == [][C24_Step]_vars

\* A started attempt whose view shows the options of a multiple-choice
\* question the quiz marks a right option and an explanation of.
C24_Witness ==
  /\ resp.code = 201
  /\ "questions" \in DOMAIN resp
  /\ \E i \in DOMAIN resp.questions :
       /\ resp.questions[i].options # <<>>
       /\ quizzes["quizA"].questions[i].explanation = <<"w">>
       /\ \E k \in DOMAIN quizzes["quizA"].questions[i].options :
            quizzes["quizA"].questions[i].options[k].isCorrect

(***************************************************************************)
(* C25: the grade of a graded attempt is the one the threshold table gives *)
(* for the true ratio of earned to possible points: 94.99 percent is an A  *)
(* and 95 an A+, 59.9 an F and 60 a D; rounding the percentage lifts no    *)
(* ratio below a threshold to the higher grade.                            *)
(***************************************************************************)
\* The table applied to earned / possible without rounding:
\* 100 * earned / possible >= t  iff  100 * earned >= t * possible.
C25_GradeOfRatio(earned, possible) ==
  IF 100 * earned >= 95 * possible THEN "A+"
  ELSE IF 100 * earned >= 90 * possible THEN "A"
  ELSE IF 100 * earned >= 85 * possible THEN "B+"
  ELSE IF 100 * earned >= 80 * possible THEN "B"
  ELSE IF 100 * earned >= 75 * possible THEN "C+"
  ELSE IF 100 * earned >= 70 * possible THEN "C"
  ELSE IF 100 * earned >= 60 * possible THEN "D"
  ELSE "F"

C25_ExactBoundaries ==
  \A i \in DOMAIN subs :
    LET possible == TotalPossible(subs[i].answers, quizzes[subs[i].quiz].questions)
    IN (subs[i].endTime # NoDate /\ possible > 0) =>
         subs[i].grade = C25_GradeOfRatio(subs[i].total, possible)

(***************************************************************************)
(* C26: an answer whose questionId matches no question of the quiz is      *)
(* dropped by grading: the graded answers stored on the attempt do not     *)
(* hold it, and it adds nothing to the total nor to the possible points.   *)
(***************************************************************************)
C26_Matched(answers, questions) ==
  SelectSeq(answers, LAMBDA a : FindQuestion(questions, a.questionId) # 0)

C26_UnmatchedDropped ==
  \A i \in DOMAIN subs :
    LET questions == quizzes[subs[i].quiz].questions
        matched == C26_Matched(subs[i].answers, questions)
        scored == calculateScore([subs[i] EXCEPT !.answers = matched], questions)
    IN subs[i].endTime # NoDate =>
         /\ subs[i].answers = matched
         /\ subs[i].total = scored.total
         /\ subs[i].percentage = scored.percentage

\* The part on the score alone.
C26_UnmatchedScoresNothing ==
  \A i \in DOMAIN subs :
    LET questions == quizzes[subs[i].quiz].questions
        matched == C26_Matched(subs[i].answers, questions)
        scored == calculateScore([subs[i] EXCEPT !.answers = matched], questions)
    IN subs[i].endTime # NoDate =>
         /\ subs[i].total = scored.total
         /\ subs[i].percentage = scored.percentage

(***************************************************************************)
(* C27: every leaderboard entry references a finalized attempt: an entry   *)
(* is never inserted or replaced from an attempt that is in progress, so   *)
(* the attempt of each entry has status submitted or evaluated.            *)
(***************************************************************************)
C27_EntriesFinalized ==
  \A c \in CompIds :
    \A k \in DOMAIN comps[c].leaderboard :
      subs[comps[c].leaderboard[k].submission].status \in {"submitted", "evaluated"}

(***************************************************************************)
(* C28: submitQuiz grades and finalizes an attempt only against the quiz   *)
(* it was started on: when the quiz of the request is another one, the     *)
(* request fails, the attempt stays in progress and no quiz's statistics   *)
(* change.                                                                 *)
(***************************************************************************)
C28_Mismatch(p) ==
  /\ pc[p] = "submit_quiz"
  /\ loc[p].quizId # loc[p].submission.quiz

C28_Step ==
  \A p \in Procs :
    C28_Mismatch(p) =>
      /\ pc'[p] = "idle"
      /\ resp'.code >= 400
      /\ subs' = subs
      /\ quizzes' = quizzes

C28_OwnQuizOnly == [][C28_Step]_vars

(***************************************************************************)
(* C29: through every sequence of entries a user's leaderboard entry never *)
(* gets worse in the key the ranks are sorted by: the score of the entry   *)
(* never decreases when the entry is replaced.                             *)
(***************************************************************************)
C29_Step ==
  \A c \in CompIds, u \in Students :
    LET e == EntryOf(comps[c], u)
        f == EntryOf(comps'[c], u)
    IN (e # 0 /\ f # 0) =>
         comps'[c].leaderboard[f].score >= comps[c].leaderboard[e].score

C29_ScoreNeverDecreases == [][C29_Step]_vars

(***************************************************************************)
(* C30: once the elapsed time of an attempt in progress exceeds its time   *)
(* limit, no operation of the student changes or replaces it: the later    *)
(* submits of it and the later starts on its quiz fail, and it stays in    *)
(* progress until a grader evaluates it.                                   *)
(***************************************************************************)
\* Attempt i is in progress and its time limit has run out.
C30_Stale(i) ==
  /\ subs[i].status = "in-progress"
  /\ subs[i].timeLimit # 0
  /\ (clock - subs[i].startTime) \div 1000 > subs[i].timeLimit

\* The step changes attempt i only as a grader's evaluation does.
C30_Kept(i) ==
  subs'[i] # subs[i] =>
    /\ AllIdle
    /\ subs'[i].status = "evaluated"
    /\ subs'[i].evaluatedBy \in Graders

\* The step creates no attempt of the student of attempt i on its quiz.
C30_NotReplaced(i) ==
  subs'[i] = subs[i] =>
    \A j \in DOMAIN subs' \ DOMAIN subs :
      ~(subs'[j].quiz = subs[i].quiz /\ subs'[j].student = subs[i].student)

C30_Submitting(i) ==
  {p \in Procs : pc[p] = "submit_quiz" /\ loc[p].submissionId = i}

C30_Finding(i) ==
  {p \in Procs : /\ pc[p] = "start_find"
                 /\ loc[p].quizId = subs[i].quiz
                 /\ loc[p].user = subs[i].student}

\* A start request is refused for the quiz alone, before the attempts are
\* looked up.
C30_RefusedForQuiz ==
  /\ AllIdle
  /\ \A p \in Procs : pc'[p] = "idle"
  /\ resp' # resp
  /\ resp'.msg \in {"Quiz not found", "Quiz is not available at this time",
                    "You are not assigned to this quiz"}

\* The statement as given: every later submit of the attempt ends with the
\* time-limit error and every later start on its quiz with the conflict.
C30_StepAlways ==
  \A i \in DOMAIN subs :
    C30_Stale(i) =>
      /\ C30_Kept(i)
      /\ C30_NotReplaced(i)
      /\ \A p \in C30_Submitting(i) :
           /\ pc'[p] = "idle"
           /\ resp'.code = 400 /\ resp'.msg = "Time limit exceeded"
      /\ \A p \in C30_Finding(i) :
           /\ pc'[p] = "idle"
           /\ resp'.code = 400
           /\ resp'.msg = "You already have an ongoing attempt for this quiz"
      /\ ~C30_RefusedForQuiz

C30_StaleForever == [][C30_StepAlways]_vars

\* The submit of a stale attempt ends with the time-limit error when the
\* quiz of the request exists and with 404 when it does not; a start that
\* reaches the lookup of the attempts ends with the conflict, one that does
\* not is refused for the quiz.  Either way the attempt is neither changed
\* nor replaced.
C30_Step ==
  \A i \in DOMAIN subs :
    C30_Stale(i) =>
      /\ C30_Kept(i)
      /\ C30_NotReplaced(i)
      /\ \A p \in C30_Submitting(i) :
           /\ pc'[p] = "idle"
           /\ IF loc[p].quizId \in DOMAIN quizzes
              THEN resp'.code = 400 /\ resp'.msg = "Time limit exceeded"
              ELSE resp'.code = 404 /\ resp'.msg = "Quiz not found"
      /\ \A p \in C30_Finding(i) :
           /\ pc'[p] = "idle"
           /\ resp'.code = 400
           /\ resp'.msg = "You already have an ongoing attempt for this quiz"
      /\ C30_RefusedForQuiz => (subs' = subs /\ resp'.code \in {400, 403, 404})

C30_StaleUntilEvaluated == [][C30_Step]_vars

\* The time of attempt 1 has run out and the quiz has closed; the attempt is
\* still in progress, alone, after a submit of it was refused.
C30_Witness ==
  /\ Len(subs) = 1
  /\ C30_Stale(1)
  /\ clock = 200000
  /\ AllIdle
  /\ resp.msg = "Time limit exceeded"

====
